---- MODULE Spec2Model ----
(***************************************************************************)
(* Reconciliation scenario engine: UnifiedAnalyzer.analyze over the local  *)
(* store (file_types, journal, transactions, payments, rule tables), with  *)
(* the components it relies on: the ContextEnricher cache, RuleAnalyzer,   *)
(* the LLM retry loop of llm_utils and the session manager of http_client. *)
(*                                                                         *)
(* Conventions of the model                                                *)
(*   - a Python value that may be None is a sequence of length <= 1:       *)
(*     None is <<>> and Some(v) is <<v>>; dict.get(k) of a missing key is  *)
(*     None;                                                               *)
(*   - identifiers that the code iterates or compares character by         *)
(*     character (entity ids, key values, payment ids, timestamps kept as  *)
(*     TEXT, rule expressions) are sequences of one-character strings;     *)
(*   - names, categories and status words are TLA+ strings;                *)
(*   - a SQL result set is a sequence in table (rowid) order.              *)
(***************************************************************************)
EXTENDS Integers, Sequences, FiniteSets, TLC

VARIABLES
    file_types,            \* rows of table file_types of the workspace
    journal,               \* rows of table journal
    transactions,          \* rows of table transactions
    payments,              \* rows of table payments
    rule_recon_state_map,  \* rows of table rule_recon_state_map (joined with recon_state)
    rules,                 \* rows of table rules
    call,                  \* arguments of the last analyze call
    result,                \* dict returned by the last analyze call
    trace,                 \* locals of the last analyze call (joined map, rule list,
                           \* journal fetches of the fan-out)
    _context_cache,        \* ContextEnricher._context_cache: cache key -> context
    threads,               \* the threads inside ContextEnricher.enrich: position,
                           \* workspace id, context fetched, context returned
    retry,                 \* the invoke_with_retry_langchain call in progress: its
                           \* locals, the outcome of the last llm.invoke, how it ended
    manager                \* module http_client: SharedSessionManager._instance and
                           \* _lock, _session_manager, the threads using the class

vars == <<file_types, journal, transactions, payments, rule_recon_state_map,
          rules, call, result, trace, _context_cache, threads, retry, manager>>

store == <<file_types, journal, transactions, payments, rule_recon_state_map, rules>>

----------------------------------------------------------------------------
(* Python values *)

None == <<>>

Some(v) == <<v>>

\* dict.get(key) with the default None
get(d, k) == IF k \in DOMAIN d THEN d[k] ELSE None

\* truth value of an optional string (None and '' are falsy)
Truthy(o) == o # None /\ o[1] # <<>>

\* truth value of an optional integer (None and 0 are falsy)
TruthyInt(o) == o # None /\ o[1] # 0

\* Python's `a or b`
Or(a, b) == IF Truthy(a) THEN a ELSE b

\* iterating a str yields its one-character substrings
Chars(s) == [i \in 1..Len(s) |-> <<s[i]>>]

Range(s) == {s[i] : i \in 1..Len(s)}

RECURSIVE Flatten(_)
Flatten(ss) == IF ss = <<>> THEN <<>> ELSE Head(ss) \o Flatten(Tail(ss))

SeqsUpTo(S, n) == UNION {[1..k -> S] : k \in 0..n}

----------------------------------------------------------------------------
(* Strings the code lower-cases or searches for a substring.  The words    *)
(* that occur as names and categories of record-types, and as messages of  *)
(* the errors of llm.invoke, are enumerated.                               *)

\* str.lower()
Lower(s) ==
    CASE s = "Internal" -> "internal"
      [] s = "BANK" -> "bank"
      [] s = "Bank_Payment_Report" -> "bank_payment_report"
      [] s = "Error code: 429" -> "error code: 429"
      [] s = "Rate limit reached" -> "rate limit reached"
      [] s = "Quota exceeded" -> "quota exceeded"
      [] s = "Connection error" -> "connection error"
      [] OTHER -> s

\* the search words of the classifiers (of record-types, of rate-limit
\* errors) that occur in a lower-case string
Substrings(s) ==
    CASE s = "internal" -> {"internal"}
      [] s = "bank" -> {"bank"}
      [] s = "mis" -> {"mis"}
      [] s = "rzp_payment_report" -> {"rzp", "payment_report"}
      [] s = "bank_payment_report" -> {"bank", "payment_report"}
      [] s = "internal_ledger" -> {"internal"}
      [] s = "mis_report" -> {"mis"}
      [] s = "error code: 429" -> {"429"}
      [] s = "rate limit reached" -> {"rate limit"}
      [] s = "quota exceeded" -> {"quota"}
      [] OTHER -> {}

\* `sub in s`
Contains(s, sub) == sub \in Substrings(s)

\* truth value of an optional name
TruthyName(o) == o # None /\ o[1] # ""

----------------------------------------------------------------------------
(* LocalDB *)

\* LocalDB.get_unique_column: the value of the "unique_column" entry of the
\* file_metadata of the first file_types row with this id, else None
get_unique_column(file_type_id) ==
    LET rows == SelectSeq(file_types, LAMBDA ft: ft.id = file_type_id)
    IN  IF rows # <<>> THEN rows[1].unique_column ELSE None

\* LocalDB.query_journal_records(file_type_id, entity_ids, unique_column_value);
\* the callers modelled here pass no date bound and no recon_status filter.
\* A row's record_data is Some(dict) when the column parses to a JSON object
\* and None otherwise (NULL, '', text that is not JSON, JSON that is not an
\* object): lines 431-445 filter only the rows of a non-empty dict
query_journal_records(file_type_id, entity_ids, unique_column_value) ==
    LET InSql(row) ==
            /\ row.file_type_id = file_type_id
            /\ entity_ids # <<>> =>
                   (row.entity_id # None /\ row.entity_id[1] \in Range(entity_ids))
        Kept(row) ==
            IF Truthy(unique_column_value)
            THEN LET unique_col == get_unique_column(file_type_id)
                 IN  IF /\ TruthyName(unique_col)
                        /\ row.record_data # None
                        /\ DOMAIN row.record_data[1] # {}
                     THEN get(row.record_data[1], unique_col[1]) = unique_column_value
                     ELSE TRUE
            ELSE TRUE
    IN  SelectSeq(journal, LAMBDA row: InSql(row) /\ Kept(row))

\* LocalDB.query_transactions(entity_ids, check_reconciled_at): entity_ids is
\* whatever sequence the caller passes; one placeholder is bound per item
query_transactions(entity_ids, check_reconciled_at) ==
    LET InSql(row) ==
            /\ entity_ids # <<>> =>
                   (row.entity_id # None /\ row.entity_id[1] \in Range(entity_ids))
            /\ check_reconciled_at => row.reconciled_at = None
    IN  SelectSeq(transactions, InSql)

\* LocalDB.query_payments(payment_ids)
query_payments(payment_ids) ==
    LET InSql(row) == payment_ids # <<>> => row.id \in Range(payment_ids)
    IN  SelectSeq(payments, InSql)

----------------------------------------------------------------------------
(* DataFetcher *)

\* the dict DataFetcher.fetch_journal_records builds from a journal row:
\* record_data merged under the journal columns
formatted_record(row) ==
    [k \in {"file_type_id", "recon_status", "entity_id"} |->
        CASE k = "file_type_id" -> Some(row.file_type_id)
          [] k = "recon_status" -> row.recon_status
          [] k = "entity_id" -> row.entity_id]
    @@ row.record_data[1]

\* the result built from the rows that hold a dict, the others skipped
journal_result_of_readable(records) ==
    LET readable == SelectSeq(records, LAMBDA row: row.record_data # None)
    IN  [success |-> TRUE,
         records |-> [i \in 1..Len(readable) |-> formatted_record(readable[i])]]

\* fetch_journal_records, lines 290-311 and 352-362: the result built from
\* the queried rows; `**record_data` raises for a record_data that is not
\* a dict, and the exception handler returns a failure without records
journal_result_of(records) ==
    IF \E i \in 1..Len(records) : records[i].record_data = None
    THEN [success |-> FALSE, records |-> <<>>]
    ELSE [success |-> TRUE,
          records |-> [i \in 1..Len(records) |-> formatted_record(records[i])]]

\* DataFetcher.fetch_journal_records with the local store enabled
fetch_journal_records(file_type_id, entity_ids, unique_column_value) ==
    journal_result_of(query_journal_records(file_type_id, entity_ids, unique_column_value))

----------------------------------------------------------------------------
(* UnifiedAnalyzer: the joined map                                         *)
(* file_type_records is kept as the sequence, in file_types order, of the  *)
(* entries [ft_id, records] whose record list is not empty (a dict in      *)
(* insertion order).                                                       *)

\* source_category of a file_types row, lower-cased (analyze, line 138)
source_category_of(ft) == Lower(ft.source_category[1])

\* classification of the internal record-types by name instead of category
internal_file_type_ids_by_name(fts) ==
    LET sel == SelectSeq(fts, LAMBDA ft: Contains(Lower(ft.name), "internal"))
    IN  [i \in 1..Len(sel) |-> sel[i].id]

\* analyze, lines 141-147: the ids of the record-types classified internal
internal_file_type_ids_of(fts) ==
    LET sel == SelectSeq(fts, LAMBDA ft: Contains(source_category_of(ft), "internal"))
    IN  [i \in 1..Len(sel) |-> sel[i].id]

\* analyze, lines 141-147: the ids of the record-types classified MIS/bank
mis_file_type_ids_of(fts) ==
    LET sel == SelectSeq(fts, LAMBDA ft:
                   /\ ~Contains(source_category_of(ft), "internal")
                   /\ \/ Contains(source_category_of(ft), "bank")
                      \/ Contains(source_category_of(ft), "mis"))
    IN  [i \in 1..Len(sel) |-> sel[i].id]

\* analyze, lines 149-167: the per-type fetch of the fan-out
fetch_for_type(ft, unique_column_value) ==
    IF TruthyName(get_unique_column(ft.id))
    THEN LET journal_result == fetch_journal_records(ft.id, <<>>, unique_column_value)
         IN  IF journal_result.success /\ journal_result.records # <<>>
             THEN <<[ft_id |-> ft.id, records |-> journal_result.records]>>
             ELSE <<>>
    ELSE <<>>

\* analyze, lines 132-167
build_file_type_records(fts, unique_column_value) ==
    Flatten([i \in 1..Len(fts) |-> fetch_for_type(fts[i], unique_column_value)])

\* file_type_records.get(ft_id, [])
records_of(file_type_records, ft_id) ==
    LET hit == SelectSeq(file_type_records, LAMBDA e: e.ft_id = ft_id)
    IN  IF hit # <<>> THEN hit[1].records ELSE <<>>

\* any(ft_id in ids and file_type_records.get(ft_id) for ft_id in ids)
any_records(file_type_records, ids) ==
    \E i \in 1..Len(ids) : records_of(file_type_records, ids[i]) # <<>>

----------------------------------------------------------------------------
(* Scenario A *)

\* _analyze_scenario_a, lines 318-348: the findings of one record.  The
\* entity id, a str, is passed where query_transactions expects a list.
scenario_a_of_record(ft_id, record) ==
    LET recon_status == get(record, "recon_status")
        entity_id == get(record, "entity_id")
        transaction == query_transactions(Chars(entity_id[1]), TRUE)
    IN  IF recon_status = Some("Reconciled") /\ Truthy(entity_id)
        THEN IF transaction # <<>>
             THEN IF ~Truthy(transaction[1].reconciled_at)
                  THEN <<[scenario |-> "A", entity_id |-> entity_id[1],
                          file_type_id |-> ft_id, issue |-> "recon_at_not_updated",
                          recon_status |-> recon_status[1]]>>
                  ELSE <<>>
             ELSE <<[scenario |-> "A", entity_id |-> entity_id[1],
                     file_type_id |-> ft_id, issue |-> "transaction_record_missing",
                     recon_status |-> recon_status[1]]>>
        ELSE <<>>

\* Scenario A with the date bounds as a filter: with bounds, no record is
\* looked at
_analyze_scenario_a_bounded(file_type_records, transaction_date_range) ==
    IF transaction_date_range = None
    THEN Flatten([i \in 1..Len(file_type_records) |->
             LET e == file_type_records[i]
             IN  Flatten([j \in 1..Len(e.records) |->
                             scenario_a_of_record(e.ft_id, e.records[j])])])
    ELSE <<>>

\* UnifiedAnalyzer._analyze_scenario_a; transaction_date_range is a parameter
\* (line 308) the body does not read
_analyze_scenario_a(file_type_records, transaction_date_range) ==
    Flatten([i \in 1..Len(file_type_records) |->
        LET e == file_type_records[i]
        IN  Flatten([j \in 1..Len(e.records) |-> scenario_a_of_record(e.ft_id, e.records[j])])])

\* analyze, lines 178-185
has_reconciled_of(file_type_records) ==
    \E i \in 1..Len(file_type_records) :
        \E j \in 1..Len(file_type_records[i].records) :
            get(file_type_records[i].records[j], "recon_status") = Some("Reconciled")

----------------------------------------------------------------------------
(* Scenario B *)

LagThreshold == 3600

Abs(x) == IF x < 0 THEN -x ELSE x

\* _analyze_scenario_b, lines 384-435: the findings for the looked-up rows.
\* The key, a str, is passed where query_payments expects a list.
scenario_b_of_payment(unique_column_value) ==
    LET payment == query_payments(Chars(unique_column_value))
        updated_at == payment[1].updated_at
        datalake_updated_at == payment[1]._datalake_updated_at
        lag_seconds == Abs(updated_at[1] - datalake_updated_at[1])
    IN  IF payment = <<>>
        THEN <<[scenario |-> "B", entity_id |-> unique_column_value,
                issue |-> "payment_not_found", payment_exists |-> FALSE,
                data_lag_detected |-> FALSE]>>
        ELSE IF updated_at # None /\ datalake_updated_at # None
             THEN IF lag_seconds # 0 /\ lag_seconds > LagThreshold
                  THEN <<[scenario |-> "B", entity_id |-> unique_column_value,
                          issue |-> "data_lag_detected", payment_exists |-> TRUE,
                          data_lag_detected |-> TRUE, lag_seconds |-> lag_seconds]>>
                  ELSE <<[scenario |-> "B", entity_id |-> unique_column_value,
                          issue |-> "internal_data_missing", payment_exists |-> TRUE,
                          data_lag_detected |-> FALSE]>>
             ELSE <<>>

\* UnifiedAnalyzer._analyze_scenario_b; transaction_date_range is a parameter
\* (line 359) the body does not read
_analyze_scenario_b(file_type_records, mis_file_type_ids, internal_file_type_ids, unique_column_value, transaction_date_range) ==
    LET has_mis == any_records(file_type_records, mis_file_type_ids)
        has_internal == any_records(file_type_records, internal_file_type_ids)
    IN  IF has_mis /\ ~has_internal
        THEN scenario_b_of_payment(unique_column_value)
        ELSE <<>>

----------------------------------------------------------------------------
(* ContextEnricher: rule tables and rule resolution *)

Digits == <<"0", "1", "2", "3", "4", "5", "6", "7", "8", "9">>

IsDigit(c) == c \in Range(Digits)

\* the digit character of d in 0..9
DigitChar(d) == Digits[d + 1]

\* the value of a digit character
DigitVal(c) == (CHOOSE i \in 1..10 : Digits[i] = c) - 1

\* int(s) for a string of digits
RECURSIVE ToInt(_)
ToInt(s) ==
    IF s = <<>> THEN 0
    ELSE ToInt(SubSeq(s, 1, Len(s) - 1)) * 10 + DigitVal(s[Len(s)])

\* str(n) for n >= 0
RECURSIVE ToStr(_)
ToStr(n) == IF n < 10 THEN <<DigitChar(n)>> ELSE ToStr(n \div 10) \o <<DigitChar(n % 10)>>

\* the length of the run of digits that starts s
RECURSIVE DigitPrefixLen(_)
DigitPrefixLen(s) ==
    IF s # <<>> /\ IsDigit(Head(s)) THEN 1 + DigitPrefixLen(Tail(s)) ELSE 0

\* re.findall(r"\d+", s): the maximal runs of digits, left to right
RECURSIVE findall_digits(_)
findall_digits(s) ==
    IF s = <<>> THEN <<>>
    ELSE LET n == DigitPrefixLen(s)
         IN  IF n > 0
             THEN <<SubSeq(s, 1, n)>> \o findall_digits(SubSeq(s, n + 1, Len(s)))
             ELSE findall_digits(Tail(s))

StartsWith(s, old) == Len(old) <= Len(s) /\ SubSeq(s, 1, Len(old)) = old

\* str.replace(old, new) for a non-empty old: every non-overlapping
\* occurrence, left to right
RECURSIVE replace(_, _, _)
replace(s, old, new) ==
    IF s = <<>> THEN <<>>
    ELSE IF StartsWith(s, old)
         THEN new \o replace(SubSeq(s, Len(old) + 1, Len(s)), old, new)
         ELSE <<Head(s)>> \o replace(Tail(s), old, new)

\* f"({rule_text})" where rule_text = rule_obj.get("rule", "")
rule_text_in_parens(rule_obj) ==
    <<"(">> \o (IF rule_obj.rule = None THEN <<"N", "o", "n", "e">> ELSE rule_obj.rule[1])
            \o <<")">>

\* _resolve_rule_expressions, lines 421-429: the replacements of one
\* expression, one per extracted id, in order
RECURSIVE substitute_rule_ids(_, _, _)
substitute_rule_ids(resolved_expression, rule_ids_int_list, rules_dict) ==
    IF rule_ids_int_list = <<>> THEN resolved_expression
    ELSE LET rule_id == Head(rule_ids_int_list)
             next == IF rule_id \in DOMAIN rules_dict
                     THEN replace(resolved_expression, ToStr(rule_id),
                                  rule_text_in_parens(rules_dict[rule_id]))
                     ELSE resolved_expression
         IN  substitute_rule_ids(next, Tail(rule_ids_int_list), rules_dict)

\* _resolve_rule_expressions, lines 411-435: the resolved entry of one row
resolved_entry_of(rrsm, rules_dict) ==
    LET rule_ids == findall_digits(rrsm.rule_expression[1])
        rule_ids_int_list == [i \in 1..Len(rule_ids) |-> ToInt(rule_ids[i])]
    IN  [id |-> rrsm.id,
         rule_expression |-> rrsm.rule_expression,
         file_type1_id |-> rrsm.file_type1_id,
         file_type2_id |-> rrsm.file_type2_id,
         seq_number |-> rrsm.seq_number,
         resolved_expression |->
             substitute_rule_ids(rrsm.rule_expression[1], rule_ids_int_list, rules_dict),
         rule_ids |-> rule_ids_int_list]

\* ContextEnricher._resolve_rule_expressions
_resolve_rule_expressions(rrsm_rows, rules_dict) ==
    LET kept == SelectSeq(rrsm_rows, LAMBDA rrsm: Truthy(rrsm.rule_expression))
    IN  [i \in 1..Len(kept) |-> resolved_entry_of(kept[i], rules_dict)]

\* s with the pair x inserted after the last pair whose key is <= its key
RECURSIVE InsertByKey(_, _)
InsertByKey(s, x) ==
    IF s = <<>> THEN <<x>>
    ELSE IF Head(s).key <= x.key
         THEN <<Head(s)>> \o InsertByKey(Tail(s), x)
         ELSE <<x>> \o s

RECURSIVE SortPairs(_)
SortPairs(s) ==
    IF s = <<>> THEN <<>>
    ELSE InsertByKey(SortPairs(SubSeq(s, 1, Len(s) - 1)), s[Len(s)])

SeqNumberDefault == 999

\* get_resolved_rules_for_file_types, line 527: the sort key of a rule
seq_number_key(rule) ==
    IF rule.seq_number # None THEN rule.seq_number[1] ELSE SeqNumberDefault

\* a stable sort by seq_number_key (list.sort; SQL ORDER BY over rowid order
\* for rows that have a seq_number)
SortBySeqNumber(s) ==
    LET sorted == SortPairs([i \in 1..Len(s) |-> [key |-> seq_number_key(s[i]), val |-> s[i]]])
    IN  [i \in 1..Len(sorted) |-> sorted[i].val]

\* SQL `x IN (ids)`: never true of NULL
InIds(x, ids) == x # None /\ x[1] \in Range(ids)

\* LocalDB.query_rule_recon_state_map(workspace_id, file_type_ids) with a
\* non-empty id list; ORDER BY seq_number puts NULL first in SQLite
query_rule_recon_state_map(file_type_ids) ==
    LET InSql(row) ==
            \/ InIds(row.file_type1_id, file_type_ids) /\ InIds(row.file_type2_id, file_type_ids)
            \/ /\ row.file_type1_id # None
               /\ row.file_type1_id = row.file_type2_id
               /\ InIds(row.file_type1_id, file_type_ids)
        rows == SelectSeq(rule_recon_state_map, InSql)
    IN  SelectSeq(rows, LAMBDA row: row.seq_number = None)
        \o SortBySeqNumber(SelectSeq(rows, LAMBDA row: row.seq_number # None))

\* LocalDB.query_rules(workspace_id, file_type_ids) with a non-empty id
\* list: the dict of the selected rows keyed by rule id
query_rules(file_type_ids) ==
    LET InSql(row) ==
            \/ InIds(row.file_type1_id, file_type_ids)
            \/ InIds(row.file_type2_id, file_type_ids)
        rows == SelectSeq(rules, InSql)
    IN  [id \in {rows[i].id : i \in 1..Len(rows)} |->
            (CHOOSE row \in Range(rows) : row.id = id)]

\* the ids of record-types, in file_types order
ids_of(fts) == [i \in 1..Len(fts) |-> fts[i].id]

\* enrich, lines 66-100: the context dict built from the query results
context_of(rrsm_rows, rules_dict) ==
    [file_types |-> file_types,
     rules |-> rules_dict,
     rule_recon_state_map |-> rrsm_rows,
     resolved_rules |-> _resolve_rule_expressions(rrsm_rows, rules_dict)]

\* ContextEnricher.enrich(workspace_id) on an empty cache: the context of
\* the workspace (the workspace row itself is not read by the analysis)
enrich ==
    context_of(IF file_types = <<>> THEN rule_recon_state_map
               ELSE query_rule_recon_state_map(ids_of(file_types)),
               IF file_types = <<>>
               THEN [id \in {rules[i].id : i \in 1..Len(rules)} |->
                        (CHOOSE row \in Range(rules) : row.id = id)]
               ELSE query_rules(ids_of(file_types)))

\* the workspace whose rows the tables of the model hold
StoreWorkspace == <<"W">>

\* enrich, line 51: the cache key of a call without file_type_ids
cache_key(workspace_id) == workspace_id \o <<"_">>

\* enrich, lines 66-100: the context fetched for a workspace; the tables
\* hold no row of another workspace than StoreWorkspace
fetched_context(workspace_id) ==
    IF workspace_id = StoreWorkspace THEN enrich
    ELSE [file_types |-> <<>>, rules |-> <<>>, rule_recon_state_map |-> <<>>,
          resolved_rules |-> <<>>]

\* enrich, lines 54-56 and 103, run without interruption: the cache after
\* a call for the workspace
cache_after_enrich(cache, workspace_id) ==
    IF cache_key(workspace_id) \in DOMAIN cache THEN cache
    ELSE (cache_key(workspace_id) :> fetched_context(workspace_id)) @@ cache

\* ContextEnricher.clear_cache(workspace_id): the cache it leaves
clear_cache(cache, workspace_id) ==
    IF Truthy(workspace_id)
    THEN [k \in {key \in DOMAIN cache : ~StartsWith(key, workspace_id[1])} |-> cache[k]]
    ELSE <<>>

\* the test without the pair taken the other way round
rule_applies_in_order(rule, file_type1_id, file_type2_id) ==
    LET ft1 == rule.file_type1_id
        ft2 == rule.file_type2_id
    IN  \/ ft1 = file_type1_id /\ ft2 = file_type2_id
        \/ ft1 = ft2 /\ (ft1 = file_type1_id \/ ft1 = file_type2_id)

\* get_resolved_rules_for_file_types, lines 518-524: the rule is kept
rule_applies(rule, file_type1_id, file_type2_id) ==
    LET ft1 == rule.file_type1_id
        ft2 == rule.file_type2_id
    IN  \/ ft1 = file_type1_id /\ ft2 = file_type2_id
        \/ ft1 = file_type2_id /\ ft2 = file_type1_id
        \/ ft1 = ft2 /\ (ft1 = file_type1_id \/ ft1 = file_type2_id)

\* ContextEnricher.get_resolved_rules_for_file_types
get_resolved_rules_for_file_types(context, file_type1_id, file_type2_id) ==
    SortBySeqNumber(SelectSeq(context.resolved_rules,
                              LAMBDA rule: rule_applies(rule, file_type1_id, file_type2_id)))

----------------------------------------------------------------------------
(* RuleAnalyzer *)

\* Python's `a or b` on optional integers
OrInt(a, b) == IF TruthyInt(a) THEN a ELSE b

\* a mismatch map that reads the rule: a rule with the text x never fails
mismatch_details_of_rule_text(rule_expression, internal_data, mis_data) ==
    [k \in (IF <<"x">> \in Range(Chars(rule_expression)) THEN {} ELSE {"rule_mismatch"}) |->
        [internal |-> get(internal_data, "amount"), mis |-> get(mis_data, "amount")]]

\* RuleAnalyzer._evaluate_rule: the mismatch map; the rule expression is
\* not read
mismatch_details_of(rule_expression, internal_data, mis_data) ==
    LET internal_amount == OrInt(get(internal_data, "amount"), get(internal_data, "abs_amount"))
        mis_amount == OrInt(get(mis_data, "amount"), get(mis_data, "abs_amount"))
        internal_rrn == Or(get(internal_data, "rrn"), get(internal_data, "payment_id"))
        mis_rrn == Or(get(mis_data, "rrn"), get(mis_data, "payment_id"))
        keys == (IF internal_amount # None /\ mis_amount # None /\ internal_amount # mis_amount
                 THEN {"amount_mismatch"} ELSE {})
                \cup (IF internal_rrn # mis_rrn THEN {"rrn_mismatch"} ELSE {})
    IN  [k \in keys |->
            IF k = "amount_mismatch"
            THEN [internal |-> internal_amount, mis |-> mis_amount]
            ELSE [internal |-> internal_rrn, mis |-> mis_rrn]]

\* the rule passes if the amounts do not differ
evaluation_of_amount(mismatch_details) ==
    [rule_passed |-> "amount_mismatch" \notin DOMAIN mismatch_details,
     mismatch_details |-> mismatch_details]

\* _evaluate_rule, lines 471-474: the rule passes if no mismatch was found
evaluation_of(mismatch_details) ==
    [rule_passed |-> DOMAIN mismatch_details = {},
     mismatch_details |-> mismatch_details]

\* RuleAnalyzer._evaluate_rule: (rule_passed, mismatch_details)
_evaluate_rule(rule_expression, internal_data, mis_data) ==
    evaluation_of(mismatch_details_of(rule_expression, internal_data, mis_data))

\* _get_internal_and_mis_data, lines 281-328: the entity id of the record.
\* A record built by fetch_journal_records has no "record_data" entry, so
\* the look-ups in record_data find nothing.
entity_id_of_record(record) ==
    LET file_type_id == get(record, "file_type_id")
        unique_col == IF TruthyName(file_type_id)
                      THEN get_unique_column(file_type_id[1]) ELSE None
        by_unique_col == IF TruthyName(unique_col) THEN get(record, unique_col[1]) ELSE None
    IN  IF Truthy(by_unique_col) THEN by_unique_col
        ELSE Or(get(record, "entity_id"),
                Or(get(record, "extracted_payment_id"),
                   Or(get(record, "pay_id"), get(record, "rzp_entity_id"))))

\* _get_internal_and_mis_data, lines 346-362: the record-type counts as internal
counts_as_internal(ft) ==
    LET source_category == source_category_of(ft)
        file_type_name == Lower(ft.name)
    IN  \/ Contains(source_category, "internal")
        \/ /\ ~Contains(source_category, "bank") /\ ~Contains(source_category, "mis")
           /\ Contains(file_type_name, "rzp") /\ Contains(file_type_name, "payment_report")

\* _get_internal_and_mis_data, lines 346-362: the record-type counts as MIS
counts_as_mis(ft) ==
    LET source_category == source_category_of(ft)
        file_type_name == Lower(ft.name)
    IN  /\ ~Contains(source_category, "internal")
        /\ \/ Contains(source_category, "bank") \/ Contains(source_category, "mis")
           \/ /\ ~(Contains(file_type_name, "rzp") /\ Contains(file_type_name, "payment_report"))
              /\ (Contains(file_type_name, "bank") \/ Contains(file_type_name, "mis"))

\* _get_internal_and_mis_data, lines 342-362: the loop over the ids of the
\* record-types of one class, which keeps the first id, or the id of the
\* record-type the record belongs to
RECURSIVE pick_file_type(_, _, _)
pick_file_type(ids, record_file_type_id, picked) ==
    IF ids = <<>> THEN picked
    ELSE LET now == IF picked = None \/ Some(Head(ids)) = record_file_type_id
                    THEN Some(Head(ids)) ELSE picked
         IN  pick_file_type(Tail(ids), record_file_type_id, now)

\* _get_internal_and_mis_data, lines 390-393 and 418-421: records[0] of a
\* journal fetch, or None
first_record_of(journal_result) ==
    IF journal_result.success /\ journal_result.records # <<>>
    THEN Some(journal_result.records[1])
    ELSE None

\* _get_internal_and_mis_data, lines 364-421: the first journal record of
\* the key in the picked record-type, or None
first_journal_record(picked_file_type_id, entity_id) ==
    IF TruthyName(picked_file_type_id)
    THEN first_record_of(
             IF TruthyName(get_unique_column(picked_file_type_id[1]))
             THEN fetch_journal_records(picked_file_type_id[1], <<>>, entity_id)
             ELSE fetch_journal_records(picked_file_type_id[1], <<entity_id[1]>>, None))
    ELSE None

\* _get_internal_and_mis_data, lines 327-423: the two records looked up for
\* the entity id among the record-types of the context
internal_and_mis_data_of(entity_id, fts, record_file_type_id) ==
    IF ~Truthy(entity_id)
    THEN [internal_data |-> None, mis_data |-> None]
    ELSE [internal_data |->
              first_journal_record(
                  pick_file_type(ids_of(SelectSeq(fts, counts_as_internal)),
                                 record_file_type_id, None), entity_id),
          mis_data |->
              first_journal_record(
                  pick_file_type(ids_of(SelectSeq(fts, counts_as_mis)),
                                 record_file_type_id, None), entity_id)]

\* RuleAnalyzer._get_internal_and_mis_data: (internal_data, mis_data)
_get_internal_and_mis_data(record) ==
    internal_and_mis_data_of(entity_id_of_record(record), enrich.file_types,
                             get(record, "file_type_id"))

----------------------------------------------------------------------------
(* Scenario C *)

\* the records of the given record-types, concatenated (lines 456-462)
records_of_types(file_type_records, ids) ==
    Flatten([i \in 1..Len(ids) |-> records_of(file_type_records, ids[i])])

\* the status filter left out: every record counts as unreconciled
unreconciled_unfiltered(records) == records

\* _analyze_scenario_c, lines 466-467: the records with status Unreconciled
unreconciled(records) ==
    SelectSeq(records, LAMBDA r: get(r, "recon_status") = Some("Unreconciled"))

\* _analyze_scenario_c, lines 488-494: the rules to evaluate, the scoped
\* ones unless there is none
scenario_c_selection(internal_data, mis_data, resolved_rules, scoped_rules) ==
    [evaluated |-> TRUE,
     internal_data |-> internal_data,
     mis_data |-> mis_data,
     scoped_rules |-> scoped_rules,
     applicable_rules |-> IF scoped_rules = <<>> THEN resolved_rules ELSE scoped_rules]

\* _analyze_scenario_c, lines 481-491: the rules of the context for the
\* record-types of the two records
scenario_c_rules(internal_data, mis_data, context) ==
    scenario_c_selection(internal_data, mis_data, context.resolved_rules,
        get_resolved_rules_for_file_types(context, get(internal_data, "file_type_id"),
                                          get(mis_data, "file_type_id")))

\* _analyze_scenario_c, lines 475-479: rules are evaluated if both records
\* were looked up
scenario_c_pair(data) ==
    IF data.internal_data # None /\ data.mis_data # None
    THEN scenario_c_rules(data.internal_data[1], data.mis_data[1], enrich)
    ELSE [evaluated |-> FALSE, guard |-> TRUE]

\* _analyze_scenario_c, lines 464-472: the guard and the combined record
scenario_c_guarded(mis_records, internal_records, unreconciled_mis, unreconciled_internal) ==
    IF /\ mis_records # <<>> /\ internal_records # <<>>
       /\ (unreconciled_mis # <<>> \/ unreconciled_internal # <<>>)
    THEN scenario_c_pair(_get_internal_and_mis_data(
             IF unreconciled_mis # <<>> THEN unreconciled_mis[1] ELSE mis_records[1]))
    ELSE [evaluated |-> FALSE, guard |-> FALSE]

\* _analyze_scenario_c, lines 452-494: the locals of the call
scenario_c_locals(file_type_records, mis_file_type_ids, internal_file_type_ids) ==
    scenario_c_guarded(
        records_of_types(file_type_records, mis_file_type_ids),
        records_of_types(file_type_records, internal_file_type_ids),
        unreconciled(records_of_types(file_type_records, mis_file_type_ids)),
        unreconciled(records_of_types(file_type_records, internal_file_type_ids)))

\* _analyze_scenario_c, lines 515-523: the finding of a failing rule.  The
\* suggested remark (an LLM call or a template) is left out of the finding.
rule_failure_finding(rule, evaluation, unique_column_value) ==
    [scenario |-> "C", entity_id |-> unique_column_value,
     issue |-> "rule_matching_failure",
     failed_rule_id |-> rule.id,
     failed_rule_expression |-> rule.resolved_expression,
     mismatch_details |-> evaluation.mismatch_details]

\* _analyze_scenario_c, lines 506-524: only the first failing rule is reported
first_of_failing(failing, internal_data, mis_data, unique_column_value) ==
    IF failing = <<>> THEN <<>>
    ELSE <<rule_failure_finding(
               failing[1],
               _evaluate_rule(failing[1].resolved_expression, internal_data, mis_data),
               unique_column_value)>>

\* _analyze_scenario_c, lines 496-524: the rule loop
first_rule_failure(applicable_rules, internal_data, mis_data, unique_column_value) ==
    first_of_failing(
        SelectSeq(applicable_rules, LAMBDA rule:
            /\ rule.resolved_expression # <<>>
            /\ ~_evaluate_rule(rule.resolved_expression, internal_data,
                               mis_data).rule_passed),
        internal_data, mis_data, unique_column_value)

\* _analyze_scenario_c, lines 479-524: the findings, given the locals
findings_of_locals(locals, unique_column_value) ==
    IF locals.evaluated
    THEN first_rule_failure(locals.applicable_rules, locals.internal_data,
                            locals.mis_data, unique_column_value)
    ELSE <<>>

\* UnifiedAnalyzer._analyze_scenario_c
_analyze_scenario_c(file_type_records, mis_file_type_ids, internal_file_type_ids, unique_column_value) ==
    findings_of_locals(
        scenario_c_locals(file_type_records, mis_file_type_ids, internal_file_type_ids),
        unique_column_value)

\* analyze_rule_failures, lines 102-111: the caller's records after the
\* loop; a record with both looked-up records is given the entries
\* _internal_data and _mis_data
records_with_both_stored(unreconciled_records) ==
    [i \in 1..Len(unreconciled_records) |->
        LET data == _get_internal_and_mis_data(unreconciled_records[i])
        IN  IF data.internal_data # None /\ data.mis_data # None
            THEN ("_internal_data" :> data.internal_data) @@ ("_mis_data" :> data.mis_data)
                 @@ unreconciled_records[i]
            ELSE unreconciled_records[i]]

\* RuleAnalyzer.analyze_rule_failures, called with a list of records
\* (lines 102-234).  A record built by fetch_journal_records has no
\* "record_data" entry, so the entity id of a finding is looked up in the
\* record itself (line 158).  Of a finding, the suggested remark and the
\* copy of the rule row are left out.
analyze_rule_failures(unreconciled_records) ==
    LET HasBoth(record) ==
            LET data == _get_internal_and_mis_data(record)
            IN  data.internal_data # None /\ data.mis_data # None
        records_with_both == SelectSeq(records_with_both_stored(unreconciled_records), HasBoth)
        Failing(internal_data, mis_data) ==
            SelectSeq(scenario_c_rules(internal_data, mis_data, enrich).applicable_rules,
                      LAMBDA rule:
                          /\ rule.resolved_expression # <<>>
                          /\ ~_evaluate_rule(rule.resolved_expression, internal_data,
                                             mis_data).rule_passed)
        FindingOf(record, internal_data, mis_data, failing) ==
            IF failing = <<>> THEN <<>>
            ELSE <<[record_id |-> Or(get(record, "id"), get(record, "record_id")),
                    entity_id |-> Or(get(record, "entity_id"), get(record, "rzp_entity_id")),
                    failed_rule_id |-> failing[1].id,
                    failed_rule_expression |-> failing[1].resolved_expression,
                    mismatch_details |->
                        _evaluate_rule(failing[1].resolved_expression, internal_data,
                                       mis_data).mismatch_details,
                    issue |-> "rule_matching_failure"]>>
        FindingsOf(record, data) ==
            FindingOf(record, data.internal_data[1], data.mis_data[1],
                      Failing(data.internal_data[1], data.mis_data[1]))
        findings ==
            Flatten([i \in 1..Len(records_with_both) |->
                        FindingsOf(records_with_both[i],
                                   _get_internal_and_mis_data(records_with_both[i]))])
    IN  [success |-> TRUE,
         findings |-> findings,
         total_unreconciled |-> Len(unreconciled_records),
         records_with_both_data |-> Len(records_with_both),
         rule_failures |-> Len(findings),
         scenario |-> "C"]

----------------------------------------------------------------------------
(* UnifiedAnalyzer.analyze *)

\* an error result that carries the fields of a report
ErrorResult_as_report(error) ==
    [success |-> FALSE, error |-> error, findings |-> <<>>,
     scenarios_detected |-> <<>>, file_type_records |-> <<>>]

\* analyze, lines 77-81, 95-99, 105-109, 124-128 and 241-245: the dict of
\* an error return
ErrorResult(error) == [success |-> FALSE, error |-> error, findings |-> <<>>]

\* analyze, lines 88-92: the first record-type whose name matches
user_file_type_of(fts, file_type_name) ==
    SelectSeq(fts, LAMBDA ft: Lower(ft.name) = Lower(file_type_name))

\* the Scenario B branch with the two categories exchanged: taken for
\* internal records without MIS records
scenario_b_branch_exchanged(file_type_records, mis_file_type_ids, internal_file_type_ids, unique_column_value, transaction_date_range) ==
    IF /\ any_records(file_type_records, internal_file_type_ids)
       /\ ~any_records(file_type_records, mis_file_type_ids)
    THEN _analyze_scenario_b(file_type_records, internal_file_type_ids,
                             mis_file_type_ids, unique_column_value,
                             transaction_date_range)
    ELSE <<>>

\* analyze, lines 195-210: Scenario B is analysed for MIS records without
\* internal records
scenario_b_branch(file_type_records, mis_file_type_ids, internal_file_type_ids, unique_column_value, transaction_date_range) ==
    IF /\ any_records(file_type_records, mis_file_type_ids)
       /\ ~any_records(file_type_records, internal_file_type_ids)
    THEN _analyze_scenario_b(file_type_records, mis_file_type_ids,
                             internal_file_type_ids, unique_column_value,
                             transaction_date_range)
    ELSE <<>>

\* analyze, lines 212-223: Scenario C is analysed when both categories have records
scenario_c_branch(file_type_records, mis_file_type_ids, internal_file_type_ids, unique_column_value) ==
    IF /\ any_records(file_type_records, mis_file_type_ids)
       /\ any_records(file_type_records, internal_file_type_ids)
    THEN _analyze_scenario_c(file_type_records, mis_file_type_ids,
                             internal_file_type_ids, unique_column_value)
    ELSE <<>>

\* the report that carries the findings of the first scenario that has any
report_of_first(scenario_a_findings, scenario_b_findings, scenario_c_findings, file_type_records, unique_column_value) ==
    LET findings == IF scenario_a_findings # <<>> THEN scenario_a_findings
                    ELSE IF scenario_b_findings # <<>> THEN scenario_b_findings
                    ELSE scenario_c_findings
    IN  [success |-> TRUE,
         findings |-> findings,
         scenarios_detected |-> IF findings = <<>> THEN <<>> ELSE <<findings[1].scenario>>,
         file_type_records |->
             [ft_id \in {file_type_records[i].ft_id : i \in 1..Len(file_type_records)} |->
                 Len(records_of(file_type_records, ft_id))],
         unique_column_value |-> unique_column_value]

\* the report with every tag, whether its scenario has findings or not
report_of_all_tags(scenario_a_findings, scenario_b_findings, scenario_c_findings, file_type_records, unique_column_value) ==
    [success |-> TRUE,
     findings |-> scenario_a_findings \o scenario_b_findings \o scenario_c_findings,
     scenarios_detected |-> <<"A", "B", "C">>,
     file_type_records |->
         [ft_id \in {file_type_records[i].ft_id : i \in 1..Len(file_type_records)} |->
             Len(records_of(file_type_records, ft_id))],
     unique_column_value |-> unique_column_value]

\* analyze, lines 225-233: the report
report(scenario_a_findings, scenario_b_findings, scenario_c_findings, file_type_records, unique_column_value) ==
    [success |-> TRUE,
     findings |-> scenario_a_findings \o scenario_b_findings \o scenario_c_findings,
     scenarios_detected |->
         (IF scenario_a_findings # <<>> THEN <<"A">> ELSE <<>>)
         \o (IF scenario_b_findings # <<>> THEN <<"B">> ELSE <<>>)
         \o (IF scenario_c_findings # <<>> THEN <<"C">> ELSE <<>>),
     file_type_records |->
         [ft_id \in {file_type_records[i].ft_id : i \in 1..Len(file_type_records)} |->
             Len(records_of(file_type_records, ft_id))],
     unique_column_value |-> unique_column_value]

\* analyze, lines 169-233: classification of the joined map and the report
report_of(file_type_records, mis_file_type_ids, internal_file_type_ids, unique_column_value, transaction_date_range) ==
    report(IF has_reconciled_of(file_type_records)
           THEN _analyze_scenario_a(file_type_records, transaction_date_range) ELSE <<>>,
           scenario_b_branch(file_type_records, mis_file_type_ids,
                             internal_file_type_ids, unique_column_value,
                             transaction_date_range),
           scenario_c_branch(file_type_records, mis_file_type_ids,
                             internal_file_type_ids, unique_column_value),
           file_type_records, unique_column_value)

\* analyze, lines 74-233, given the record-types of the context
analyze_file_types(fts, user_file_type, file_type_name, unique_column_value, transaction_date_range) ==
    IF fts = <<>> THEN ErrorResult("No file types found for workspace")
    ELSE IF user_file_type = <<>> THEN ErrorResult("File type not found in workspace")
    ELSE IF ~TruthyName(get_unique_column(user_file_type[1].id))
         THEN ErrorResult("Unique column not found for file type")
    ELSE IF ~Truthy(unique_column_value)
         THEN ErrorResult("unique_column_value is required")
    ELSE IF \E i \in 1..Len(fts) : fts[i].source_category = None
         THEN ErrorResult("Exception")
    ELSE report_of(build_file_type_records(fts, unique_column_value),
                   mis_file_type_ids_of(fts), internal_file_type_ids_of(fts),
                   unique_column_value[1], transaction_date_range)

\* UnifiedAnalyzer.analyze(workspace_id, file_type_name, unique_column_value,
\* transaction_date_range) without an output file; the returned dict
analyze(file_type_name, unique_column_value, transaction_date_range) ==
    analyze_file_types(enrich.file_types,
                       user_file_type_of(enrich.file_types, file_type_name),
                       file_type_name, unique_column_value, transaction_date_range)

\* analyze, lines 76-157: the record-types the fan-out calls
\* fetch_journal_records for, in order: none when analyze returns before
\* line 132, and only those before a record-type whose NULL source_category
\* raises at line 138
fan_out_fetches(fts, user_file_type, unique_column_value) ==
    IF fts = <<>> \/ user_file_type = <<>> THEN <<>>
    ELSE IF ~TruthyName(get_unique_column(user_file_type[1].id)) THEN <<>>
    ELSE IF ~Truthy(unique_column_value) THEN <<>>
    ELSE LET raising == {i \in 1..Len(fts) : fts[i].source_category = None}
             last == IF raising = {} THEN Len(fts)
                     ELSE (CHOOSE i \in raising : \A j \in raising : i <= j) - 1
         IN  ids_of(SelectSeq(SubSeq(fts, 1, last),
                              LAMBDA ft: TruthyName(get_unique_column(ft.id))))

\* the journal fetches of the fan-out of analyze(file_type_name, unique_column_value)
journal_fetches(file_type_name, unique_column_value) ==
    [journal_fetches |->
        fan_out_fetches(file_types, user_file_type_of(file_types, file_type_name),
                        unique_column_value)]

\* analyze, lines 132-223: the locals, given the joined map and the two id lists
locals_with(file_type_records, mis_file_type_ids, internal_file_type_ids, has_mis, has_internal) ==
    [file_type_records |-> file_type_records,
     mis_file_type_ids |-> mis_file_type_ids,
     internal_file_type_ids |-> internal_file_type_ids,
     has_mis |-> has_mis,
     has_internal |-> has_internal,
     scenario_c |-> IF has_mis /\ has_internal
                    THEN scenario_c_locals(file_type_records, mis_file_type_ids,
                                           internal_file_type_ids)
                    ELSE [evaluated |-> FALSE, guard |-> FALSE]]

\* analyze, lines 196-197: has_mis and has_internal of the joined map
locals_for(file_type_records, mis_file_type_ids, internal_file_type_ids) ==
    locals_with(file_type_records, mis_file_type_ids, internal_file_type_ids,
                any_records(file_type_records, mis_file_type_ids),
                any_records(file_type_records, internal_file_type_ids))

\* the locals of analyze that the report does not carry
locals_of(unique_column_value) ==
    locals_for(build_file_type_records(file_types, unique_column_value),
               mis_file_type_ids_of(file_types), internal_file_type_ids_of(file_types))

----------------------------------------------------------------------------
(* llm_utils: invoke_with_retry_langchain *)

\* _get_retry_config: llm.max_attempts is not configured, the default applies
DefaultMaxAttempts == 3

\* attempts = max_attempts or cfg["max_attempts"]: the default also stands
\* in for a max_attempts of 0
attempts(max_attempts) ==
    IF TruthyInt(max_attempts) THEN max_attempts[1] ELSE DefaultMaxAttempts

\* the exceptions llm.invoke raises: a plain Exception (no status_code), an
\* openai.APIStatusError, or its subclass openai.RateLimitError
Errors ==
    LET Messages == {"Error code: 429", "Rate limit reached", "Quota exceeded",
                     "Connection error"}
    IN  {[message |-> msg, status_code |-> None, RateLimitError |-> FALSE] : msg \in Messages}
        \cup {[message |-> msg, status_code |-> Some(code), RateLimitError |-> FALSE] :
                 msg \in Messages, code \in {429, 500}}
        \cup {[message |-> msg, status_code |-> Some(429), RateLimitError |-> TRUE] :
                 msg \in Messages}

_is_rate_limit_error(error) ==
    LET message == Lower(error.message)
    IN  IF Contains(message, "429") \/ Contains(message, "rate limit")
           \/ Contains(message, "quota")
        THEN TRUE
        ELSE IF error.status_code # None
        THEN error.status_code = Some(429)
        ELSE error.RateLimitError

\* line 193, with the wrong guard: the final attempt is not told apart
reraises_unless_rate_limited(error, attempt, attempts_) ==
    ~_is_rate_limit_error(error)

\* line 193: the error is re-raised rather than retried
reraises(error, attempt, attempts_) ==
    ~_is_rate_limit_error(error) \/ attempt >= attempts_

\* the call on entry of the for loop: no llm.invoke yet
Invoking(max_attempts) ==
    [max_attempts |-> max_attempts, attempts |-> attempts(max_attempts), attempt |-> 1,
     invoked |-> 0, outcome |-> None, pc |-> "invoke", returned |-> None, raised |-> None]

----------------------------------------------------------------------------
(* http_client: SharedSessionManager *)

\* line 60: the key is formatted from verify_ssl, timeout, max_retries and
\* retry_backoff_factor (retry_status_forcelist is no part of it); the
\* formatted text of each argument is kept as one component
session_key(verify_ssl, timeout, max_retries, retry_backoff_factor) ==
    <<"ssl", verify_ssl, "timeout", timeout, "retries", max_retries,
      "backoff", retry_backoff_factor>>

\* line 63, with the wrong test: a key is never found in the table
in_sessions_never(key, _sessions) ==
    FALSE

\* line 63: session_key in self._sessions
in_sessions(key, _sessions) ==
    key \in DOMAIN _sessions

----------------------------------------------------------------------------
(* The stores the analysis is run on *)

MaxJournal == 2
MaxTransactions == 1
MaxPayments == 1
MaxRules == 2

\* record-types as loaded into file_types (load_test_data.py, lines 63-84)
FT_I1 == [id |-> "I1", name |-> "rzp_payment_report",
          source_category |-> Some("internal"), unique_column |-> Some("pay_id")]
FT_I2 == [id |-> "I2", name |-> "internal_ledger",
          source_category |-> Some("Internal"), unique_column |-> Some("pay_id")]
FT_M1 == [id |-> "M1", name |-> "bank_payment_report",
          source_category |-> Some("bank"),
          unique_column |-> Some("extracted_payment_id")]

FileTypeById(id) == CHOOSE ft \in {FT_I1, FT_I2, FT_M1} : ft.id = id

Key2 == <<"a", "b">>
KeyValues == {<<"a">>, Key2}

RrnA == <<"A">>
Amounts == {1000, 1100}

\* a journal row of a record-type: record_data carries the unique column,
\* an amount and a reference number
JournalRow(ft_id, key, status, amount) ==
    [file_type_id |-> ft_id,
     entity_id |-> Some(key),
     recon_status |-> Some(status),
     record_data |-> Some((FileTypeById(ft_id).unique_column[1] :> Some(key))
                          @@ ("amount" :> Some(amount)) @@ ("rrn" :> Some(RrnA)))]

TransactionRows ==
    [entity_id : {Some(k) : k \in KeyValues},
     reconciled_at : {None, Some(<<>>), Some(<<"t">>)}]

\* payments rows of the keys, with their (updated_at, _datalake_updated_at)
PaymentRows ==
    {[id |-> k, updated_at |-> t[1], _datalake_updated_at |-> t[2]] :
        k \in KeyValues,
        t \in {<<Some(0), Some(0)>>, <<Some(0), Some(LagThreshold)>>,
               <<Some(0), Some(LagThreshold + 1)>>, <<Some(LagThreshold + 1), Some(0)>>,
               <<None, Some(0)>>}}

RuleRow == [id |-> 1, rule |-> Some(<<"x">>),
            file_type1_id |-> Some("I1"), file_type2_id |-> Some("M1")]

\* a rule_recon_state_map row; id is the rowid, so rows are in id order
RrsmRow(id, expr, ft1, ft2, seq) ==
    [id |-> id, rule_expression |-> Some(expr), file_type1_id |-> Some(ft1),
     file_type2_id |-> Some(ft2), seq_number |-> seq]

MaxThreads == 2

Threads == 1..MaxThreads

\* ContextEnricher.__init__, line 32: an empty cache; no thread inside enrich
NoEnrich ==
    /\ _context_cache = <<>>
    /\ threads = [t \in Threads |->
                      [pc |-> "idle", workspace_id |-> None, context |-> None,
                       returned |-> None]]

\* no invoke_with_retry_langchain call in progress; module http_client not imported
NoUtils ==
    /\ retry = None
    /\ manager = None

NoCall ==
    /\ call = None
    /\ result = None
    /\ trace = None
    /\ NoEnrich
    /\ NoUtils

\* stores for Scenario A: journal rows of both categories, transactions rows
InitA ==
    /\ file_types = <<FT_I1, FT_M1>>
    /\ journal \in SeqsUpTo({JournalRow(ft, k, st, 1000) :
                                ft \in {"I1", "M1"}, k \in KeyValues,
                                st \in {"Reconciled", "Unreconciled"}}, MaxJournal)
    /\ transactions \in SeqsUpTo(TransactionRows, MaxTransactions)
    /\ payments = <<>>
    /\ rule_recon_state_map = <<>>
    /\ rules = <<>>
    /\ NoCall

\* stores for Scenario B: journal rows of both categories, payments rows
InitB ==
    /\ file_types = <<FT_I1, FT_M1>>
    /\ journal \in SeqsUpTo({JournalRow(ft, k, "Unreconciled", 1000) :
                                ft \in {"I1", "M1"}, k \in KeyValues}, MaxJournal)
    /\ transactions = <<>>
    /\ payments \in {p \in SeqsUpTo(PaymentRows, MaxPayments) :
                        \A i, j \in 1..Len(p) : p[i].id = p[j].id => i = j}
    /\ rule_recon_state_map = <<>>
    /\ rules = <<>>
    /\ NoCall

\* stores for Scenario C: journal rows of three record-types, one rule
InitC ==
    /\ file_types \in {<<FT_I1, FT_I2, FT_M1>>, <<FT_I2, FT_I1, FT_M1>>}
    /\ journal \in SeqsUpTo(
           {JournalRow(ft, Key2, st, 1000) :
               ft \in {"I1", "I2"}, st \in {"Reconciled", "Unreconciled"}}
           \cup {JournalRow("M1", Key2, st, a) :
               st \in {"Reconciled", "Unreconciled"}, a \in Amounts}, MaxJournal)
    /\ transactions = <<>>
    /\ payments = <<>>
    /\ rule_recon_state_map \in {<<>>, <<RrsmRow(1, <<"1">>, "I1", "M1", Some(1))>>,
                                 <<RrsmRow(1, <<>>, "I1", "M1", Some(1))>>}
    /\ rules = <<RuleRow>>
    /\ NoCall

\* the record-type pairs rules are scoped to: the pair of the two records,
\* either way round, the self-rules, and the pair of other record-types
RulePairs ==
    {<<"I1", "M1">>, <<"M1", "I1">>, <<"I1", "I1">>, <<"M1", "M1">>, <<"I2", "M1">>}

\* the rule_recon_state_map tables of at most n rows
RrsmTables(n) ==
    UNION {{[i \in 1..k |-> RrsmRow(i, c[i][1], c[i][2][1], c[i][2][2], c[i][3])] :
              c \in [1..k -> {<<"1">>} \X RulePairs
                             \X {None, Some(1), Some(2)}]} : k \in 0..n}

\* stores for rule selection: one internal and one bank record of the key,
\* rule tables of every shape
InitR ==
    /\ file_types = <<FT_I1, FT_I2, FT_M1>>
    /\ journal \in {<<JournalRow(ft, Key2, "Unreconciled", 1000),
                      JournalRow("M1", Key2, "Unreconciled", 1100)>> : ft \in {"I1", "I2"}}
    /\ transactions = <<>>
    /\ payments = <<>>
    /\ rule_recon_state_map \in RrsmTables(MaxRules)
    /\ rules = <<RuleRow>>
    /\ NoCall

\* rule expressions over the rule ids 1, 2 and 12 (and the unknown id 3)
Expressions ==
    {<<>>, <<"1">>, <<"1", "2">>, <<"3">>, <<"1", " ", "2">>, <<"2", " ", "1">>,
     <<"1", " ", "1", "2">>, <<"1", "2", " ", "1">>}

\* the rules tables that hold any of the ids 1, 2 and 12, in id order;
\* rules.rule is NULL, a text without digits or a text that is a number
RuleTables ==
    LET RuleIds == <<1, 2, 12>>
        RuleTexts == {None, Some(<<"x">>), Some(<<"2">>)}
        RuleRowOf(id, text) == [id |-> id, rule |-> text, file_type1_id |-> Some("I1"), file_type2_id |-> Some("M1")]
    IN  {Flatten([i \in 1..Len(RuleIds) |->
                     IF c[i] = None THEN <<>> ELSE <<RuleRowOf(RuleIds[i], c[i][1])>>]) :
            c \in [1..Len(RuleIds) -> {None} \cup {Some(t) : t \in RuleTexts}]}

\* stores for rule resolution: one rule_recon_state_map row of every
\* expression over rules tables of every shape
InitX ==
    /\ file_types = <<FT_I1, FT_M1>>
    /\ journal = <<>>
    /\ transactions = <<>>
    /\ payments = <<>>
    /\ rule_recon_state_map \in {<<RrsmRow(1, e, "I1", "M1", Some(1))>> : e \in Expressions}
    /\ rules \in RuleTables
    /\ NoCall

\* the records _evaluate_rule is applied to: each of the fields amount,
\* abs_amount, rrn and payment_id is absent or holds a value, 0 and ''
\* included
RuleRecords ==
    LET AmountFields == {None, Some(Some(0)), Some(Some(1000)), Some(Some(1100))}
        RefFields == {None, Some(Some(<<>>)), Some(Some(RrnA))}
        Field(k, o) == IF o = None THEN [x \in {} |-> None] ELSE (k :> o[1])
    IN  {Field("amount", a) @@ Field("abs_amount", b) @@ Field("rrn", r) @@ Field("payment_id", p) :
            a \in AmountFields, b \in AmountFields, r \in RefFields, p \in RefFields}

\* a call of _evaluate_rule about to be made, on every pair of records;
\* the stores are empty: _evaluate_rule reads its arguments only
InitE ==
    /\ file_types = <<>>
    /\ journal = <<>>
    /\ transactions = <<>>
    /\ payments = <<>>
    /\ rule_recon_state_map = <<>>
    /\ rules = <<>>
    /\ call \in {Some([rule_expression |-> <<"x">>, internal_data |-> i, mis_data |-> m]) :
                    i \in RuleRecords, m \in RuleRecords}
    /\ result = None
    /\ trace = None
    /\ NoEnrich
    /\ NoUtils

\* journal rows of record-type ft_id for the fan-out: rows whose record_data
\* carries the unique column, and rows of the key Key2 (column entity_id)
\* whose record_data is no JSON object, the empty object, or an object
\* without the unique column
JoinRows(ft_id) ==
    {JournalRow(ft_id, k, "Unreconciled", 1000) : k \in KeyValues}
    \cup {[JournalRow(ft_id, Key2, "Unreconciled", 1000) EXCEPT !.record_data = rd] :
             rd \in {None, Some([x \in {} |-> None]), Some("amount" :> Some(1000))}}

\* stores for the fan-out: record-types with and without unique-key
\* metadata, journal rows of every shape
InitJ ==
    /\ file_types \in {<<FT_I1, FT_M1>>,
                       <<[FT_I1 EXCEPT !.unique_column = None], FT_M1>>,
                       <<FT_I1, [FT_M1 EXCEPT !.unique_column = None]>>}
    /\ journal \in SeqsUpTo(JoinRows("I1") \cup JoinRows("M1"), MaxJournal)
    /\ transactions = <<>>
    /\ payments = <<>>
    /\ rule_recon_state_map = <<>>
    /\ rules = <<>>
    /\ NoCall

\* stores for the classification: journal rows of the key Key2 in both
\* categories with every status (a status other than Reconciled and
\* Unreconciled included), a rule of the pair, a payments row or none
InitH ==
    /\ file_types = <<FT_I1, FT_M1>>
    /\ journal \in SeqsUpTo(
           {JournalRow("I1", Key2, st, 1000) : st \in {"Reconciled", "Unreconciled", "Pending"}}
           \cup {JournalRow("M1", Key2, st, a) :
                    st \in {"Reconciled", "Unreconciled", "Pending"}, a \in Amounts},
           MaxJournal)
    /\ transactions = <<>>
    /\ payments \in {<<>>, <<[id |-> Key2, updated_at |-> Some(0),
                             _datalake_updated_at |-> Some(LagThreshold + 1)]>>}
    /\ rule_recon_state_map = <<RrsmRow(1, <<"1">>, "I1", "M1", Some(1))>>
    /\ rules = <<RuleRow>>
    /\ NoCall

\* stores for the classification by category: record-types whose
\* source_category is NULL, journal rows of the key Key2 in both record-types
InitN ==
    /\ file_types \in {<<FT_I1, FT_M1>>,
                       <<FT_I1, [FT_M1 EXCEPT !.source_category = None]>>,
                       <<[FT_I1 EXCEPT !.source_category = None], FT_M1>>}
    /\ journal \in SeqsUpTo({JournalRow(ft, Key2, st, 1000) :
                                ft \in {"I1", "M1"},
                                st \in {"Reconciled", "Unreconciled"}}, MaxJournal)
    /\ transactions = <<>>
    /\ payments = <<>>
    /\ rule_recon_state_map = <<>>
    /\ rules = <<>>
    /\ NoCall

\* stores for the context cache: the rule tables of one workspace
InitK ==
    /\ file_types = <<FT_I1, FT_M1>>
    /\ journal = <<>>
    /\ transactions = <<>>
    /\ payments = <<>>
    /\ rule_recon_state_map \in {<<>>, <<RrsmRow(1, <<"1">>, "I1", "M1", Some(1))>>}
    /\ rules = <<RuleRow>>
    /\ NoCall

\* the largest max_attempts a caller passes
MaxAttempts == 2

\* no store is read: invoke_with_retry_langchain is entered with max_attempts
\* omitted (None), 0, or a positive number
InitL ==
    /\ file_types = <<>>
    /\ journal = <<>>
    /\ transactions = <<>>
    /\ payments = <<>>
    /\ rule_recon_state_map = <<>>
    /\ rules = <<>>
    /\ call = None
    /\ result = None
    /\ trace = None
    /\ NoEnrich
    /\ retry \in {Some(Invoking(m)) : m \in {None} \cup {Some(n) : n \in 0..MaxAttempts}}
    /\ manager = None

\* the module while it is imported, at line 28: the class attributes are
\* set, no object is allocated, _session_manager is not yet bound.  objects
\* are the instances allocated by super().__new__, each with the attributes
\* it has so far; created are the keys of the Sessions made, in order; no
\* thread has called SharedSessionManager() yet
Importing ==
    [_instance |-> None, _lock |-> None, _session_manager |-> None, importer |-> None,
     objects |-> <<>>, created |-> <<>>,
     users |-> [t \in Threads |->
                   [pc |-> "idle", self |-> None, session_key |-> None, session |-> None]]]

\* no store is read: module http_client is being imported
InitS ==
    /\ file_types = <<>>
    /\ journal = <<>>
    /\ transactions = <<>>
    /\ payments = <<>>
    /\ rule_recon_state_map = <<>>
    /\ rules = <<>>
    /\ call = None
    /\ result = None
    /\ trace = None
    /\ NoEnrich
    /\ retry = None
    /\ manager = Some(Importing)

\* stores for the rule-failure analysis: those of Scenario C; the caller
\* passes the records of the journal rows with status Unreconciled
InitF ==
    /\ file_types \in {<<FT_I1, FT_I2, FT_M1>>, <<FT_I2, FT_I1, FT_M1>>}
    /\ journal \in SeqsUpTo(
           {JournalRow(ft, Key2, st, 1000) :
               ft \in {"I1", "I2"}, st \in {"Reconciled", "Unreconciled"}}
           \cup {JournalRow("M1", Key2, st, a) :
               st \in {"Reconciled", "Unreconciled"}, a \in Amounts}, MaxJournal)
    /\ transactions = <<>>
    /\ payments = <<>>
    /\ rule_recon_state_map \in {<<>>, <<RrsmRow(1, <<"1">>, "I1", "M1", Some(1))>>}
    /\ rules = <<RuleRow>>
    /\ call = Some([workspace_id |-> StoreWorkspace,
                    unreconciled_records |->
                        LET rows == SelectSeq(journal, LAMBDA row :
                                                 row.recon_status = Some("Unreconciled"))
                        IN  [i \in 1..Len(rows) |-> formatted_record(rows[i])]])
    /\ result = None
    /\ trace = None
    /\ NoEnrich
    /\ NoUtils

\* stores for rule evaluation: an internal and a bank record of the key, of
\* equal or different amounts; rules of the pair whose expression is empty,
\* resolves to a rule text (id 1) or keeps an unresolved id (3)
InitP ==
    /\ file_types = <<FT_I1, FT_I2, FT_M1>>
    /\ journal \in {<<JournalRow("I1", Key2, "Unreconciled", 1000),
                      JournalRow("M1", Key2, "Unreconciled", a)>> : a \in Amounts}
    /\ transactions = <<>>
    /\ payments = <<>>
    /\ rule_recon_state_map \in
           UNION {{[i \in 1..k |-> RrsmRow(i, c[i][1], "I1", "M1", c[i][2])] :
                      c \in [1..k -> {<<>>, <<"1">>, <<"3">>} \X {Some(1), Some(2)}]} :
                  k \in 0..MaxRules}
    /\ rules = <<RuleRow>>
    /\ NoCall

Init == InitA \/ InitB \/ InitC \/ InitR \/ InitX \/ InitE \/ InitJ \/ InitH \/ InitN \/ InitK \/ InitL \/ InitS \/ InitF \/ InitP

----------------------------------------------------------------------------
(* Operations *)

FileTypeNames == {"bank_payment_report", "unknown_report"}

KeyArguments == {None} \cup {Some(k) : k \in KeyValues}

\* one call of UnifiedAnalyzer.analyze; the store is only read, and the
\* context of the workspace is cached by the enrich call of line 67 (a
\* cached context is the context of the unchanged store)
AnalyzeBounded(file_type_name, unique_column_value, transaction_date_range) ==
    /\ call' = Some([file_type_name |-> file_type_name,
                     unique_column_value |-> unique_column_value,
                     transaction_date_range |-> transaction_date_range])
    /\ result' = Some(analyze(file_type_name, unique_column_value,
                              transaction_date_range))
    /\ trace' = IF result'[1].success
                THEN Some(locals_of(unique_column_value)
                          @@ journal_fetches(file_type_name, unique_column_value))
                ELSE Some(journal_fetches(file_type_name, unique_column_value))
    /\ _context_cache' = cache_after_enrich(_context_cache, StoreWorkspace)
    /\ UNCHANGED <<threads, retry, manager>>
    /\ UNCHANGED store

\* a call of analyze without transaction_date_range (its default, None)
Analyze(file_type_name, unique_column_value) ==
    AnalyzeBounded(file_type_name, unique_column_value, None)

Next == \E n \in FileTypeNames, v \in KeyArguments : Analyze(n, v)

\* calls of analyze without and with date bounds, a (start, end) pair
NextBounded ==
    \E n \in FileTypeNames, v \in KeyArguments, r \in {None, Some(<<<<"1">>, <<"2">>>>)} :
        AnalyzeBounded(n, v, r)

Spec == Init /\ [][Next]_vars

SpecA == InitA /\ [][Next]_vars

SpecB == InitB /\ [][Next]_vars

SpecC == InitC /\ [][Next]_vars

SpecR == InitR /\ [][Next]_vars

SpecJ == InitJ /\ [][Next]_vars

SpecH == InitH /\ [][Next]_vars

SpecN == InitN /\ [][Next]_vars

SpecP == InitP /\ [][Next]_vars

SpecD == InitH /\ [][NextBounded]_vars

\* one call of ContextEnricher.enrich, run without interruption; the store
\* is only read
Enrich ==
    /\ call' = Some([workspace_id |-> StoreWorkspace])
    /\ _context_cache' = cache_after_enrich(_context_cache, StoreWorkspace)
    /\ result' = Some(_context_cache'[cache_key(StoreWorkspace)])
    /\ trace' = None
    /\ UNCHANGED <<threads, retry, manager>>
    /\ UNCHANGED store

SpecX == InitX /\ [][Enrich]_vars

\* the call of RuleAnalyzer._evaluate_rule on the arguments held in call
Evaluate ==
    /\ call # None
    /\ "internal_data" \in DOMAIN call[1]
    /\ result' = Some(_evaluate_rule(call[1].rule_expression, call[1].internal_data, call[1].mis_data))
    /\ UNCHANGED <<call, trace, _context_cache, threads, retry, manager>>
    /\ UNCHANGED store

SpecE == InitE /\ [][Evaluate]_vars

\* enrich, lines 51-56, in thread t: a cached context is returned at once,
\* otherwise the thread goes on to fetch
EnrichCheck(t, workspace_id) ==
    /\ threads[t].pc = "idle"
    /\ threads' = [threads EXCEPT ![t] =
           IF cache_key(workspace_id) \in DOMAIN _context_cache
           THEN [pc |-> "idle", workspace_id |-> Some(workspace_id), context |-> None,
                 returned |-> Some(_context_cache[cache_key(workspace_id)])]
           ELSE [pc |-> "fetch", workspace_id |-> Some(workspace_id), context |-> None,
                 returned |-> None]]
    /\ UNCHANGED <<call, result, trace, _context_cache, retry, manager>>
    /\ UNCHANGED store

\* enrich, lines 66-100, in thread t: the context is read from the store
EnrichFetch(t) ==
    /\ threads[t].pc = "fetch"
    /\ threads' = [threads EXCEPT ![t].pc = "write",
                                  ![t].context = Some(fetched_context(threads[t].workspace_id[1]))]
    /\ UNCHANGED <<call, result, trace, _context_cache, retry, manager>>
    /\ UNCHANGED store

\* enrich, lines 103-113, in thread t: the context is written to the cache
\* and returned
EnrichWrite(t) ==
    /\ threads[t].pc = "write"
    /\ _context_cache' = (cache_key(threads[t].workspace_id[1]) :> threads[t].context[1])
                         @@ _context_cache
    /\ threads' = [threads EXCEPT ![t].pc = "idle", ![t].context = None,
                                  ![t].returned = threads[t].context]
    /\ UNCHANGED <<call, result, trace, retry, manager>>
    /\ UNCHANGED store

WorkspaceIds == {StoreWorkspace, <<"W", "2">>}

\* one call of ContextEnricher.clear_cache
ClearCache(workspace_id) ==
    /\ call' = Some([clear_cache |-> workspace_id])
    /\ result' = None
    /\ trace' = None
    /\ _context_cache' = clear_cache(_context_cache, workspace_id)
    /\ UNCHANGED <<threads, retry, manager>>
    /\ UNCHANGED store

NextEnrich ==
    \/ \E t \in Threads, w \in WorkspaceIds : EnrichCheck(t, w)
    \/ \E t \in Threads : EnrichFetch(t)
    \/ \E t \in Threads : EnrichWrite(t)
    \/ \E w \in {None} \cup {Some(id) : id \in WorkspaceIds} : ClearCache(w)

SpecK == InitK /\ [][NextEnrich]_vars

\* one iteration of the for loop in which llm.invoke returns: lines 182-190
InvokeReturns(value) ==
    /\ retry # None
    /\ retry[1].pc = "invoke"
    /\ retry' = Some([retry[1] EXCEPT !.invoked = @ + 1,
                                      !.outcome = Some([returned |-> value]),
                                      !.pc = "returned",
                                      !.returned = Some(Some(value))])
    /\ UNCHANGED <<call, result, trace, _context_cache, threads, manager>>
    /\ UNCHANGED store

\* one iteration of the for loop in which llm.invoke raises: lines 182,
\* 191-223; after the sleep the loop goes to the next attempt, and falls
\* through (the function returns None) when range(1, attempts + 1) is used up
InvokeRaises(error) ==
    /\ retry # None
    /\ retry[1].pc = "invoke"
    /\ retry' = Some(
         IF reraises(error, retry[1].attempt, retry[1].attempts)
         THEN [retry[1] EXCEPT !.invoked = @ + 1, !.outcome = Some([raised |-> error]),
                               !.pc = "raised", !.raised = Some(error)]
         ELSE IF retry[1].attempt < retry[1].attempts
         THEN [retry[1] EXCEPT !.invoked = @ + 1, !.outcome = Some([raised |-> error]),
                               !.attempt = @ + 1]
         ELSE [retry[1] EXCEPT !.invoked = @ + 1, !.outcome = Some([raised |-> error]),
                               !.pc = "returned", !.returned = Some(None)])
    /\ UNCHANGED <<call, result, trace, _context_cache, threads, manager>>
    /\ UNCHANGED store

NextRetry ==
    \/ InvokeReturns("AIMessage")
    \/ \E error \in Errors : InvokeRaises(error)

\* llm.invoke returns or raises, and time.sleep returns: the loop goes on
SpecL == InitL /\ [][NextRetry]_vars /\ WF_vars(NextRetry)

\* a step of thread t in module http_client: the module state becomes m
SessionStep(m) ==
    /\ manager' = Some(m)
    /\ UNCHANGED <<call, result, trace, _context_cache, threads, retry>>
    /\ UNCHANGED store

\* SharedSessionManager(), line 31: the unlocked test of cls._instance.  The
\* first call is the one of line 110, made by the thread that imports the
\* module; the class is visible to the other threads once the import is over
NewCheck(t) ==
    /\ manager # None
    /\ manager[1].users[t].pc = "idle"
    /\ manager[1]._session_manager # None \/ manager[1].importer = None
    /\ SessionStep([manager[1] EXCEPT
           !.importer = IF @ = None THEN Some(t) ELSE @,
           !.users[t].pc = IF manager[1]._instance = None THEN "lock" ELSE "return"])

\* lines 32-33: cls._lock is acquired and cls._instance tested again
NewAcquire(t) ==
    /\ manager # None
    /\ manager[1].users[t].pc = "lock"
    /\ manager[1]._lock = None
    /\ SessionStep(IF manager[1]._instance = None
                   THEN [manager[1] EXCEPT !._lock = Some(t), !.users[t].pc = "allocate"]
                   ELSE [manager[1] EXCEPT !.users[t].pc = "return"])

\* line 34: the new object is bound to cls._instance, without attributes
NewAllocate(t) ==
    /\ manager # None
    /\ manager[1].users[t].pc = "allocate"
    /\ SessionStep([manager[1] EXCEPT
           !.objects = Append(@, [_sessions |-> None, _session_lock |-> None]),
           !._instance = Some(Len(manager[1].objects) + 1),
           !.users[t].pc = "sessions"])

\* line 35: cls._instance._sessions = {}
NewSessions(t) ==
    /\ manager # None
    /\ manager[1].users[t].pc = "sessions"
    /\ SessionStep([manager[1] EXCEPT
           !.objects[manager[1]._instance[1]]._sessions = Some(<<>>),
           !.users[t].pc = "session_lock"])

\* line 36, and the end of the with block: cls._lock is released
NewSessionLock(t) ==
    /\ manager # None
    /\ manager[1].users[t].pc = "session_lock"
    /\ SessionStep([manager[1] EXCEPT
           !.objects[manager[1]._instance[1]]._session_lock = Some(None),
           !._lock = None,
           !.users[t].pc = "return"])

\* line 37: cls._instance is returned; line 110 binds it to _session_manager
NewReturn(t) ==
    /\ manager # None
    /\ manager[1].users[t].pc = "return"
    /\ SessionStep([manager[1] EXCEPT
           !._session_manager = IF @ = None THEN manager[1]._instance ELSE @,
           !.users[t].self = manager[1]._instance,
           !.users[t].pc = "constructed"])

\* get_session, lines 60-62: the key is formatted and self._session_lock is
\* acquired; an object without the attribute raises AttributeError
GetSessionEnter(t, verify_ssl, timeout) ==
    /\ manager # None
    /\ manager[1].users[t].pc = "constructed"
    /\ LET self == manager[1].users[t].self[1]
           lock == manager[1].objects[self]._session_lock
       IN  IF lock = None
           THEN SessionStep([manager[1] EXCEPT !.users[t].pc = "AttributeError"])
           ELSE /\ lock[1] = None
                /\ SessionStep([manager[1] EXCEPT
                       !.objects[self]._session_lock = Some(Some(t)),
                       !.users[t].session_key = Some(session_key(verify_ssl, timeout, 3, "0.3")),
                       !.users[t].pc = "locked"])

\* get_session, lines 63-98: the Session of the key is created if the table
\* has none, and returned; self._session_lock is released.  A Session is
\* named by its position in created
GetSessionLeave(t) ==
    /\ manager # None
    /\ manager[1].users[t].pc = "locked"
    /\ LET self == manager[1].users[t].self[1]
           key == manager[1].users[t].session_key[1]
           _sessions == manager[1].objects[self]._sessions[1]
           session == Len(manager[1].created) + 1
       IN  IF in_sessions(key, _sessions)
           THEN SessionStep([manager[1] EXCEPT
                    !.objects[self]._session_lock = Some(None),
                    !.users[t].session = Some(_sessions[key]),
                    !.users[t].pc = "done"])
           ELSE SessionStep([manager[1] EXCEPT
                    !.created = Append(@, key),
                    !.objects[self]._sessions = Some((key :> session) @@ _sessions),
                    !.objects[self]._session_lock = Some(None),
                    !.users[t].session = Some(session),
                    !.users[t].pc = "done"])

NextSession ==
    \/ \E t \in Threads : NewCheck(t)
    \/ \E t \in Threads : NewAcquire(t)
    \/ \E t \in Threads : NewAllocate(t)
    \/ \E t \in Threads : NewSessions(t)
    \/ \E t \in Threads : NewSessionLock(t)
    \/ \E t \in Threads : NewReturn(t)
    \/ \E t \in Threads, verify_ssl \in BOOLEAN, timeout \in {30, 60} :
           GetSessionEnter(t, verify_ssl, timeout)
    \/ \E t \in Threads : GetSessionLeave(t)

SpecS == InitS /\ [][NextSession]_vars

\* RuleAnalyzer.analyze_rule_failures on the caller's list of records, which
\* the caller still holds when the call has returned
AnalyzeRuleFailures ==
    /\ call # None
    /\ "unreconciled_records" \in DOMAIN call[1]
    /\ call' = Some([call[1] EXCEPT
                        !.unreconciled_records = records_with_both_stored(@)])
    /\ result' = Some(analyze_rule_failures(call[1].unreconciled_records))
    /\ trace' = None
    /\ _context_cache' = cache_after_enrich(_context_cache, StoreWorkspace)
    /\ UNCHANGED <<threads, retry, manager>>
    /\ UNCHANGED store

SpecF == InitF /\ [][AnalyzeRuleFailures]_vars

----------------------------------------------------------------------------
(* Vocabulary of the properties *)

\* the last call returned a successful report
Succeeded == result # None /\ result[1].success

\* the records of the joined map of the last call, in map order
JoinedRecords ==
    Flatten([i \in 1..Len(trace[1].file_type_records) |->
                trace[1].file_type_records[i].records])

\* the category of a record-type: internal, counterpart (MIS/bank) or unclassified
CategoryOfType(ft_id) ==
    LET row == CHOOSE ft \in Range(file_types) : ft.id = ft_id
        category == Lower(row.source_category[1])
    IN  IF Contains(category, "internal") THEN "internal"
        ELSE IF Contains(category, "bank") \/ Contains(category, "mis") THEN "counterpart"
        ELSE "unclassified"

JoinedOfCategory(category) ==
    SelectSeq(JoinedRecords, LAMBDA r: CategoryOfType(r.file_type_id[1]) = category)

FindingsOf(tag) == SelectSeq(result[1].findings, LAMBDA f: f.scenario = tag)

\* the Scenario A findings about one joined record
FindingsAbout(r) ==
    SelectSeq(FindingsOf("A"), LAMBDA f:
        f.entity_id = r.entity_id[1] /\ f.file_type_id = r.file_type_id[1])

IssuesAbout(r) == {FindingsAbout(r)[i].issue : i \in 1..Len(FindingsAbout(r))}

ReconciledJoined ==
    {r \in Range(JoinedRecords) : r.recon_status = Some("Reconciled") /\ Truthy(r.entity_id)}

\* the transactions rows of an entity id
TransactionsOf(entity_id) ==
    {t \in Range(transactions) : t.entity_id = Some(entity_id)}

\* the payments rows whose id is the key
PaymentsOf(key) == {p \in Range(payments) : p.id = key}

CounterpartOnly == JoinedOfCategory("counterpart") # <<>> /\ JoinedOfCategory("internal") = <<>>

InternalOnly == JoinedOfCategory("internal") # <<>> /\ JoinedOfCategory("counterpart") = <<>>

----------------------------------------------------------------------------
(* Scenario A *)

\* C1: in a successful report, a joined record that is Reconciled and whose
\* transactions row (by the record's entity id) has a reconciled_at
\* timestamp gets no Scenario A finding.
C1_NoFindingWhenConfirmed ==
    Succeeded =>
        \A r \in ReconciledJoined :
            (\E t \in TransactionsOf(r.entity_id[1]) : Truthy(t.reconciled_at))
                => FindingsAbout(r) = <<>>

\* C2: for every Reconciled joined record, transaction_record_missing is
\* reported exactly when the entity id has no transactions row, and
\* recon_at_not_updated exactly when it has a row without reconciled_at.
C2_IssueCodes ==
    Succeeded =>
        \A r \in ReconciledJoined :
            /\ "transaction_record_missing" \in IssuesAbout(r)
                   <=> TransactionsOf(r.entity_id[1]) = {}
            /\ "recon_at_not_updated" \in IssuesAbout(r)
                   <=> \E t \in TransactionsOf(r.entity_id[1]) : ~Truthy(t.reconciled_at)

----------------------------------------------------------------------------
(* Scenario B *)

\* C3: counterpart records only and no payments row with the key as id:
\* exactly one Scenario B finding, payment_not_found with payment_exists false.
C3_PaymentNotFound ==
    (Succeeded /\ CounterpartOnly /\ PaymentsOf(result[1].unique_column_value) = {}) =>
        /\ Len(FindingsOf("B")) = 1
        /\ FindingsOf("B")[1].issue = "payment_not_found"
        /\ FindingsOf("B")[1].payment_exists = FALSE

\* the two timestamps of a payments row differ by more than the threshold
Lagging(p) ==
    /\ p.updated_at # None /\ p._datalake_updated_at # None
    /\ Abs(p.updated_at[1] - p._datalake_updated_at[1]) > LagThreshold

\* C4: counterpart records only and a payments row with the key as id:
\* exactly one Scenario B finding, never payment_not_found; it is
\* data_lag_detected with the lag iff the timestamps differ by more than
\* 3600 seconds, and internal_data_missing otherwise.
C4_PaymentPresent ==
    (Succeeded /\ CounterpartOnly) =>
        \A p \in PaymentsOf(result[1].unique_column_value) :
            /\ Len(FindingsOf("B")) = 1
            /\ FindingsOf("B")[1].issue # "payment_not_found"
            /\ FindingsOf("B")[1].issue =
                   IF Lagging(p) THEN "data_lag_detected" ELSE "internal_data_missing"
            /\ Lagging(p) =>
                   FindingsOf("B")[1].lag_seconds
                       = Abs(p.updated_at[1] - p._datalake_updated_at[1])

\* C5: a Scenario B finding is reported only for a joined map with at least
\* one counterpart record and no internal record.
C5_ScenarioBOnlyForCounterpartOnly ==
    (Succeeded /\ FindingsOf("B") # <<>>) => CounterpartOnly

\* a joined map with records of both categories and a payments row of the
\* key: no Scenario B finding is reported
C5_BothCategoriesAnalysed ==
    /\ Succeeded
    /\ JoinedOfCategory("counterpart") # <<>> /\ JoinedOfCategory("internal") # <<>>
    /\ PaymentsOf(result[1].unique_column_value) # {}
    /\ FindingsOf("B") = <<>>

\* a joined map of internal records only, whose key has a payments row with
\* timestamps more than the threshold apart
InternalOnlyLagging ==
    /\ Succeeded
    /\ InternalOnly
    /\ \E p \in PaymentsOf(result[1].unique_column_value) : Lagging(p)

\* C6 as stated: internal records only and a payments row whose timestamps
\* differ by more than 3600 seconds give a Scenario B finding
\* data_lag_detected with lag_seconds > 3600.
C6_InternalOnlyLagReported ==
    InternalOnlyLagging =>
        \E i \in 1..Len(FindingsOf("B")) :
            /\ FindingsOf("B")[i].issue = "data_lag_detected"
            /\ FindingsOf("B")[i].lag_seconds > LagThreshold

\* C6 amended: internal records only give no Scenario B finding, whatever the
\* timestamps of the payments row; a data_lag_detected finding belongs to a
\* map of counterpart records only and carries a lag above 3600 seconds.
C6_InternalOnlyNoScenarioB ==
    /\ InternalOnlyLagging => FindingsOf("B") = <<>>
    /\ Succeeded =>
           \A i \in 1..Len(FindingsOf("B")) :
               FindingsOf("B")[i].issue = "data_lag_detected" =>
                   /\ ~InternalOnly
                   /\ FindingsOf("B")[i].lag_seconds > LagThreshold

\* an internal-only map with a lagging payments row has been analysed, and
\* the report carries no finding at all
C6_InternalOnlyAnalysed == InternalOnlyLagging /\ result[1].findings = <<>>

----------------------------------------------------------------------------
(* Scenario C *)

\* C7: a Scenario C finding is reported only when the joined map has an
\* internal record and a counterpart record and one of them is Unreconciled.
C7_ScenarioCGuard ==
    (Succeeded /\ FindingsOf("C") # <<>>) =>
        /\ JoinedOfCategory("internal") # <<>>
        /\ JoinedOfCategory("counterpart") # <<>>
        /\ \E r \in Range(JoinedOfCategory("internal") \o JoinedOfCategory("counterpart")) :
               r.recon_status = Some("Unreconciled")

\* a Scenario C finding is reported for a map that also holds a Reconciled record
C7_FindingReported ==
    /\ Succeeded
    /\ FindingsOf("C") # <<>>
    /\ \E r \in Range(JoinedRecords) : r.recon_status = Some("Reconciled")

\* the joined map holds exactly one internal record, Unreconciled with amount
\* 1000 and rrn A, and one counterpart record with amount 1100 and rrn A,
\* and the workspace has one rule with an expression
OneMismatchingPair ==
    /\ Succeeded
    /\ Len(JoinedRecords) = 2
    /\ Len(JoinedOfCategory("internal")) = 1
    /\ Len(JoinedOfCategory("counterpart")) = 1
    /\ LET internal == JoinedOfCategory("internal")[1]
           counterpart == JoinedOfCategory("counterpart")[1]
       IN  /\ internal.recon_status = Some("Unreconciled")
           /\ get(internal, "amount") = Some(1000) /\ get(internal, "rrn") = Some(RrnA)
           /\ get(counterpart, "amount") = Some(1100) /\ get(counterpart, "rrn") = Some(RrnA)
    /\ Len(rule_recon_state_map) = 1
    /\ Truthy(rule_recon_state_map[1].rule_expression)

\* C8: one unreconciled internal record (amount 1000, rrn A), one counterpart
\* record (amount 1100, rrn A) and one rule: exactly one Scenario C finding,
\* whose mismatch map is exactly amount_mismatch pairing 1000 with 1100,
\* whichever record-types of the workspace hold the two records.
C8_AmountMismatchReported ==
    OneMismatchingPair =>
        /\ Len(FindingsOf("C")) = 1
        /\ DOMAIN FindingsOf("C")[1].mismatch_details = {"amount_mismatch"}
        /\ FindingsOf("C")[1].mismatch_details.amount_mismatch
               = [internal |-> Some(1000), mis |-> Some(1100)]

----------------------------------------------------------------------------
(* Rule selection *)

\* Scenario C reached rule evaluation in the last call
Evaluated == Succeeded /\ trace[1].scenario_c.evaluated

\* the rules evaluated, in evaluation order
ApplicableRules == trace[1].scenario_c.applicable_rules

\* the evaluated rules that fail on the record pair
FailingRules ==
    SelectSeq(ApplicableRules, LAMBDA rule:
        /\ rule.resolved_expression # <<>>
        /\ ~_evaluate_rule(rule.resolved_expression, trace[1].scenario_c.internal_data,
                           trace[1].scenario_c.mis_data).rule_passed)

\* C9: when more than one evaluated rule fails, exactly one Scenario C
\* finding is reported, and it names the failing rule with the lowest
\* seq_number: no evaluated rule has a lower seq_number than the reported
\* one, on the pair-scoped path and on the fall-back path.
C9_FirstMatchWins ==
    (Evaluated /\ Len(FailingRules) > 1) =>
        /\ Len(FindingsOf("C")) = 1
        /\ \E i \in 1..Len(FailingRules) :
               /\ FailingRules[i].id = FindingsOf("C")[1].failed_rule_id
               /\ \A j \in 1..Len(FailingRules) :
                      FailingRules[j].seq_number # None =>
                          /\ FailingRules[i].seq_number # None
                          /\ FailingRules[i].seq_number[1] <= FailingRules[j].seq_number[1]

\* the record-types of the two records of the pair
PairTypes ==
    <<get(trace[1].scenario_c.internal_data, "file_type_id"),
      get(trace[1].scenario_c.mis_data, "file_type_id")>>

ResolvedRules == enrich.resolved_rules

\* the resolved rules scoped to the pair, either way round
PairScoped ==
    {rule \in Range(ResolvedRules) :
        \/ <<rule.file_type1_id, rule.file_type2_id>> = PairTypes
        \/ <<rule.file_type2_id, rule.file_type1_id>> = PairTypes}

\* the resolved self-rules of one of the two record-types
SelfScoped ==
    {rule \in Range(ResolvedRules) :
        /\ rule.file_type1_id = rule.file_type2_id
        /\ rule.file_type1_id \in {PairTypes[1], PairTypes[2]}}

\* the scoped selection was empty and every resolved rule is evaluated
FellBack == trace[1].scenario_c.scoped_rules = <<>>

\* C10 as stated: the evaluated rules are exactly the rules scoped to the
\* pair (either way round) whenever one exists, and the full set is
\* evaluated only when no rule is scoped to the pair.
C10_ExactPairScoping ==
    Evaluated =>
        /\ PairScoped # {} => Range(ApplicableRules) = PairScoped
        /\ FellBack => PairScoped = {}

\* C10 amended: the evaluated rules are exactly the rules scoped to the pair
\* (either way round) together with the self-rules of the two record-types,
\* each once, whenever one of these exists; the full set is evaluated
\* exactly when none exists.
C10_PairAndSelfScoping ==
    Evaluated =>
        /\ (PairScoped \cup SelfScoped) # {} =>
               /\ Range(ApplicableRules) = PairScoped \cup SelfScoped
               /\ Len(ApplicableRules) = Cardinality(PairScoped \cup SelfScoped)
        /\ FellBack <=> (PairScoped \cup SelfScoped) = {}
        /\ FellBack => ApplicableRules = ResolvedRules

\* a pair with a rule scoped to it the other way round and a rule of other
\* record-types has been evaluated
C10_ScopedSelection ==
    /\ Evaluated
    /\ \E rule \in PairScoped :
           <<rule.file_type2_id, rule.file_type1_id>> = PairTypes
    /\ Range(ResolvedRules) \ (PairScoped \cup SelfScoped) # {}

\* the resolved entries returned by the last enrich call
ResolvedEntries ==
    IF result # None /\ "resolved_rules" \in DOMAIN result[1]
    THEN result[1].resolved_rules ELSE <<>>

\* the text that stands for a sub-rule id: the rule text in parentheses
TextOf(rules_dict, id) ==
    <<"(">> \o (IF rules_dict[id].rule = None THEN <<"N", "o", "n", "e">>
                ELSE rules_dict[id].rule[1]) \o <<")">>

\* s with every maximal digit run that is the id of a sub-rule replaced by
\* the text of that sub-rule, and everything else unchanged
RECURSIVE TokenSubstitute(_, _)
TokenSubstitute(s, rules_dict) ==
    IF s = <<>> THEN <<>>
    ELSE LET n == DigitPrefixLen(s)
         IN  IF n = 0 THEN <<Head(s)>> \o TokenSubstitute(Tail(s), rules_dict)
             ELSE (IF ToInt(SubSeq(s, 1, n)) \in DOMAIN rules_dict
                   THEN TextOf(rules_dict, ToInt(SubSeq(s, 1, n)))
                   ELSE SubSeq(s, 1, n))
                  \o TokenSubstitute(SubSeq(s, n + 1, Len(s)), rules_dict)

\* C11: a sub-rule id is replaced only where it is a whole maximal digit
\* run of the expression: the resolved expression is the expression with
\* each such run replaced, digits of longer numbers and of substituted
\* texts left as they are
C11_WholeTokenSubstitution ==
    \A i \in 1..Len(ResolvedEntries) :
        ResolvedEntries[i].resolved_expression
            = TokenSubstitute(ResolvedEntries[i].rule_expression[1], result[1].rules)

\* the maximal digit runs of s that are the id of no sub-rule, left to right
UnresolvedRuns(s, rules_dict) ==
    SelectSeq(findall_digits(s), LAMBDA run: ToInt(run) \notin DOMAIN rules_dict)

\* no sub-rule text holds a digit
DigitFreeTexts(rules_dict) ==
    \A id \in DOMAIN rules_dict :
        rules_dict[id].rule = None \/ findall_digits(rules_dict[id].rule[1]) = <<>>

\* C12: every rule with an expression gets a resolved entry, and the ids
\* of its expression that have no sub-rule stay in the resolved expression
\* as the same numbers in the same order (the numbers of the resolved
\* expression are exactly those ids when no sub-rule text holds a digit)
C12_UnresolvedIdsKept ==
    (result # None /\ "resolved_rules" \in DOMAIN result[1]) =>
        \A i \in 1..Len(result[1].rule_recon_state_map) :
            LET rrsm == result[1].rule_recon_state_map[i]
            IN  Truthy(rrsm.rule_expression) =>
                    \E j \in 1..Len(ResolvedEntries) :
                        /\ ResolvedEntries[j].id = rrsm.id
                        /\ DigitFreeTexts(result[1].rules) =>
                              findall_digits(ResolvedEntries[j].resolved_expression)
                                  = UnresolvedRuns(rrsm.rule_expression[1], result[1].rules)

\* the last call was a call of _evaluate_rule
RuleEvaluated == call # None /\ "internal_data" \in DOMAIN call[1] /\ result # None

\* the two records hold the same value, or both nothing, in field k
SameField(k) == get(call[1].internal_data, k) = get(call[1].mis_data, k)

\* C13: records with identical amount fields and identical reference
\* fields pass with an empty mismatch map, and a rule passes exactly when
\* the mismatch map is empty
C13_MatchLaw ==
    RuleEvaluated =>
        /\ (SameField("amount") /\ SameField("abs_amount") /\ SameField("rrn") /\ SameField("payment_id"))
              => (result[1].rule_passed /\ DOMAIN result[1].mismatch_details = {})
        /\ result[1].rule_passed <=> (DOMAIN result[1].mismatch_details = {})

\* identical records that carry an amount and a reference passed
C13_IdenticalPassed ==
    /\ RuleEvaluated
    /\ call[1].internal_data = call[1].mis_data
    /\ get(call[1].internal_data, "amount") = Some(1000)
    /\ get(call[1].internal_data, "rrn") = Some(RrnA)
    /\ result[1].rule_passed

\* the value of the first of the two aliases that is present in record d
FirstPresent(d, k1, k2) == IF k1 \in DOMAIN d THEN d[k1] ELSE get(d, k2)

AmountOf(d) == FirstPresent(d, "amount", "abs_amount")

ReferenceOf(d) == FirstPresent(d, "rrn", "payment_id")

\* C14: two records that both carry an amount, the amounts different (one
\* of them may be 0, either may be carried by the alias abs_amount), and
\* whose reference fields are equal, give exactly the key amount_mismatch
C14_AmountOnlyMismatch ==
    (/\ RuleEvaluated
     /\ SameField("rrn") /\ SameField("payment_id")
     /\ AmountOf(call[1].internal_data) # None
     /\ AmountOf(call[1].mis_data) # None
     /\ AmountOf(call[1].internal_data) # AmountOf(call[1].mis_data))
        => DOMAIN result[1].mismatch_details = {"amount_mismatch"}

\* the mismatch map of two records whose amount and reference are those
\* of the first alias present
MismatchOfFirstPresent(internal_data, mis_data) ==
    LET keys == (IF /\ AmountOf(internal_data) # None
                    /\ AmountOf(mis_data) # None
                    /\ AmountOf(internal_data) # AmountOf(mis_data)
                 THEN {"amount_mismatch"} ELSE {})
                \cup (IF ReferenceOf(internal_data) # ReferenceOf(mis_data)
                      THEN {"rrn_mismatch"} ELSE {})
    IN  [k \in keys |->
            IF k = "amount_mismatch"
            THEN [internal |-> AmountOf(internal_data), mis |-> AmountOf(mis_data)]
            ELSE [internal |-> ReferenceOf(internal_data), mis |-> ReferenceOf(mis_data)]]

\* C15: the amount of a record is the value of the first of amount,
\* abs_amount that is present, its reference the value of the first of
\* rrn, payment_id that is present, also when that value is 0 or '': the
\* mismatch map is the one computed from these values
C15_FirstPresentAlias ==
    RuleEvaluated =>
        result[1].mismatch_details
            = MismatchOfFirstPresent(call[1].internal_data, call[1].mis_data)

\* the unique-key field of record-type ft_id, as file_types holds it
UniqueColumnOf(ft_id) == (CHOOSE ft \in Range(file_types) : ft.id = ft_id).unique_column

\* C16: every record of the joined map is a journal row of its record-type
\* whose unique-key field holds the key of the call
C16_JoinedByKey ==
    Succeeded =>
        \A i \in 1..Len(trace[1].file_type_records) :
            LET entry == trace[1].file_type_records[i]
            IN  \A j \in 1..Len(entry.records) :
                    /\ entry.records[j].file_type_id = Some(entry.ft_id)
                    /\ get(entry.records[j], UniqueColumnOf(entry.ft_id)[1])
                           = call[1].unique_column_value

\* the last call named a record-type of the workspace and supplied a key
NamedAndKeyed ==
    /\ call # None /\ "file_type_name" \in DOMAIN call[1]
    /\ \E ft \in Range(file_types) : ft.name = call[1].file_type_name
    /\ Truthy(call[1].unique_column_value)

\* the record-type the last call named
NamedType == CHOOSE ft \in Range(file_types) : ft.name = call[1].file_type_name

\* the unique-key lookup of the record-type finds nothing
LookupFailed(ft) == ~TruthyName(ft.unique_column)

\* the journal query of the record-type fails: one of its rows has a
\* record_data that is no JSON object
QueryFailed(ft) ==
    /\ ~LookupFailed(ft)
    /\ \E i \in 1..Len(journal) :
          journal[i].file_type_id = ft.id /\ journal[i].record_data = None

FailedTypes == {ft \in Range(file_types) : LookupFailed(ft) \/ QueryFailed(ft)}

\* the record-type has a journal row whose unique-key field holds the key
HasRowOfKey(ft) ==
    \E i \in 1..Len(journal) :
        /\ journal[i].file_type_id = ft.id
        /\ journal[i].record_data # None
        /\ get(journal[i].record_data[1], ft.unique_column[1]) = call[1].unique_column_value

\* the report counts records of the record-type
Counted(ft) == ft.id \in DOMAIN result[1].file_type_records

\* the report of a partial failure: the failed types are not counted, the
\* other types with a row of the key are, and Scenario B is detected
\* exactly for counted MIS records without counted internal records (the
\* payments table is empty in these stores)
AbsorbedReport ==
    /\ result[1].success
    /\ \A ft \in FailedTypes : ~Counted(ft)
    /\ \A ft \in Range(file_types) \ FailedTypes : HasRowOfKey(ft) => Counted(ft)
    /\ ("B" \in Range(result[1].scenarios_detected))
          <=> (\E ft \in Range(file_types) :
                  Counted(ft) /\ Contains(source_category_of(ft), "bank"))
              /\ ~(\E ft \in Range(file_types) :
                      Counted(ft) /\ Contains(source_category_of(ft), "internal"))

\* C17 as stated: whenever the lookup of some record-type fails and that of
\* another succeeds, the call succeeds and the failure is absorbed
C17_AnyFailureAbsorbed ==
    (NamedAndKeyed /\ FailedTypes # {} /\ FailedTypes # Range(file_types))
        => AbsorbedReport

\* C17: when the unique-key lookup of the named record-type succeeds, the
\* failure of another lookup or of a journal query, while some record-type
\* succeeds, is absorbed: success, no count for the failed types, and a
\* classification from the records of the other types
C17_PartialFailureAbsorbed ==
    (/\ NamedAndKeyed
     /\ ~LookupFailed(NamedType)
     /\ FailedTypes # {} /\ FailedTypes # Range(file_types))
        => AbsorbedReport

\* the journal query of the internal record-type failed, and the bank
\* record of the key was analysed alone
C17_FailedTypeLeftOut ==
    /\ NamedAndKeyed
    /\ \E ft \in FailedTypes : QueryFailed(ft) /\ ft.id = "I1"
    /\ result[1].success
    /\ DOMAIN result[1].file_type_records = {"M1"}
    /\ result[1].scenarios_detected = <<"B">>

\* C18: when the journal query of every record-type of the workspace
\* fails, the call does not return a successful report
C18_TotalFailureIsError ==
    (NamedAndKeyed /\ \A ft \in Range(file_types) : QueryFailed(ft))
        => ~result[1].success

\* the last call could not resolve its inputs: the name matches no
\* record-type, the named record-type has no unique-key metadata, or no key
\* was supplied
InputUnresolved ==
    /\ call # None /\ "file_type_name" \in DOMAIN call[1]
    /\ \/ ~\E ft \in Range(file_types) : ft.name = call[1].file_type_name
       \/ LookupFailed(NamedType)
       \/ ~Truthy(call[1].unique_column_value)

JoinedWithStatus(status) == \E r \in Range(JoinedRecords) : r.recon_status = Some(status)

\* no scenario applies to the joined map of the last call: it has no
\* Reconciled record, it is not counterpart-only, and it does not hold both
\* categories with an Unreconciled record
NoScenarioApplies ==
    /\ ~JoinedWithStatus("Reconciled")
    /\ ~CounterpartOnly
    /\ ~(/\ JoinedOfCategory("internal") # <<>>
         /\ JoinedOfCategory("counterpart") # <<>>
         /\ \E r \in Range(JoinedOfCategory("internal")) \cup Range(JoinedOfCategory("counterpart")) :
               r.recon_status = Some("Unreconciled"))

\* C20: a call with resolved inputs succeeds, and when no scenario applies
\* to the key its report has no findings and no detected scenarios
C20_HealthyOutcome ==
    (NamedAndKeyed /\ ~LookupFailed(NamedType)) =>
        /\ result[1].success
        /\ NoScenarioApplies =>
              (result[1].findings = <<>> /\ result[1].scenarios_detected = <<>>)

\* both categories hold a record of the key, neither Reconciled nor
\* Unreconciled and of different amounts, and the report is empty
C20_PendingPairHealthy ==
    /\ NamedAndKeyed
    /\ result[1].success
    /\ NoScenarioApplies
    /\ \E r \in Range(JoinedOfCategory("internal")) : get(r, "amount") = Some(1000)
    /\ \E r \in Range(JoinedOfCategory("counterpart")) : get(r, "amount") = Some(1100)
    /\ result[1].findings = <<>>
    /\ result[1].scenarios_detected = <<>>

\* the category of a record-type, by its name when it has no source_category
CategoryWithFallback(ft) ==
    LET text == IF ft.source_category = None THEN Lower(ft.name)
                ELSE Lower(ft.source_category[1])
    IN  IF Contains(text, "internal") \/ (ft.source_category = None /\ Contains(text, "rzp"))
        THEN "internal"
        ELSE IF Contains(text, "bank") \/ Contains(text, "mis") THEN "counterpart"
        ELSE "unclassified"

\* a record-type of the category has a journal row of the key
KeyInCategory(category) ==
    \E ft \in Range(file_types) : CategoryWithFallback(ft) = category /\ HasRowOfKey(ft)

\* C21: a record-type without source_category is classified by its name
\* and never makes the analysis fail: a call with resolved inputs
\* succeeds, and Scenario B is detected exactly when the key has records
\* of a counterpart record-type and none of an internal one (the payments
\* table is empty in these stores)
C21_CategoryFallback ==
    (NamedAndKeyed /\ ~LookupFailed(NamedType)) =>
        /\ result[1].success
        /\ ("B" \in Range(result[1].scenarios_detected))
              <=> (KeyInCategory("counterpart") /\ ~KeyInCategory("internal"))

\* Scenario A applies: a joined record is Reconciled and no transactions
\* row of its entity id has a reconciled_at
ScenarioAApplies ==
    \E r \in ReconciledJoined :
        ~\E t \in TransactionsOf(r.entity_id[1]) : Truthy(t.reconciled_at)

\* Scenario B applies: counterpart records only, and the key has no
\* payments row or a lagging one
ScenarioBApplies ==
    /\ CounterpartOnly
    /\ \A p \in PaymentsOf(result[1].unique_column_value) : Lagging(p)

\* Scenario C applies: records of both categories, one of them Unreconciled,
\* a rule of the pair, and the first records of the two categories differ
\* in amount
ScenarioCApplies ==
    /\ JoinedOfCategory("internal") # <<>>
    /\ JoinedOfCategory("counterpart") # <<>>
    /\ JoinedWithStatus("Unreconciled")
    /\ rule_recon_state_map # <<>>
    /\ get(JoinedOfCategory("internal")[1], "amount")
           # get(JoinedOfCategory("counterpart")[1], "amount")

\* C22: when Scenario A applies together with Scenario B or Scenario C, the
\* one report carries findings, and the tag, of each of them
C22_ScenariosCoexist ==
    Succeeded =>
        /\ (ScenarioAApplies /\ ScenarioBApplies) =>
              /\ FindingsOf("A") # <<>> /\ FindingsOf("B") # <<>>
              /\ {"A", "B"} \subseteq Range(result[1].scenarios_detected)
        /\ (ScenarioAApplies /\ ScenarioCApplies) =>
              /\ FindingsOf("A") # <<>> /\ FindingsOf("C") # <<>>
              /\ {"A", "C"} \subseteq Range(result[1].scenarios_detected)

\* a Reconciled internal record and an Unreconciled counterpart record of
\* another amount: the report carries Scenario A and Scenario C findings
C22_ReconciledAndMismatch ==
    /\ Succeeded
    /\ ScenarioAApplies /\ ScenarioCApplies
    /\ \E r \in Range(JoinedOfCategory("internal")) : r.recon_status = Some("Reconciled")
    /\ result[1].scenarios_detected = <<"A", "C">>

----------------------------------------------------------------------------
(* Context cache *)

\* C23: in every interleaving of enrich calls, a context is written to the
\* cache only for a key that has no entry (an entry is populated at most
\* once until it is cleared), and a call that finds an entry returns it
C23_PopulatedOnce ==
    [][\A t \in Threads :
          /\ (threads[t].pc = "write" /\ threads'[t].pc = "idle")
                => cache_key(threads[t].workspace_id[1]) \notin DOMAIN _context_cache
          /\ (/\ threads[t].pc = "idle" /\ threads'[t].pc = "idle"
              /\ threads'[t] # threads[t]
              /\ cache_key(threads'[t].workspace_id[1]) \in DOMAIN _context_cache)
                => threads'[t].returned
                       = Some(_context_cache[cache_key(threads'[t].workspace_id[1])])]_vars

\* the step is a call of clear_cache
ClearStep ==
    /\ call' # None /\ "clear_cache" \in DOMAIN call'[1]
    /\ threads' = threads
    /\ result' = None /\ trace' = None

\* C25: clear_cache(workspace_id) removes the entry of that workspace and
\* leaves every other entry as it was, also the entry of a workspace whose
\* id begins with the given id; clear_cache() empties the cache
C25_TargetedInvalidation ==
    [][ClearStep =>
          IF Truthy(call'[1].clear_cache)
          THEN /\ DOMAIN _context_cache'
                      = DOMAIN _context_cache \ {cache_key(call'[1].clear_cache[1])}
               /\ \A k \in DOMAIN _context_cache' : _context_cache'[k] = _context_cache[k]
          ELSE _context_cache' = <<>>]_vars

----------------------------------------------------------------------------
(* LLM retry *)

Ended == retry # None /\ retry[1].pc \in {"returned", "raised"}

\* the step calls llm.invoke
Invokes == retry # None /\ retry'[1].invoked = retry[1].invoked + 1

\* what the call of this step has to lead to: the result is returned; an
\* error that is no rate-limit error, or the error of the final attempt, is
\* raised; otherwise another attempt follows
Protocol ==
    LET outcome == retry'[1].outcome[1]
    IN  IF "returned" \in DOMAIN outcome
        THEN /\ retry'[1].pc = "returned"
             /\ retry'[1].returned = Some(Some(outcome.returned))
        ELSE IF ~_is_rate_limit_error(outcome.raised)
                \/ retry'[1].invoked >= retry[1].attempts
        THEN /\ retry'[1].pc = "raised"
             /\ retry'[1].raised = Some(outcome.raised)
        ELSE /\ retry'[1].pc = "invoke"
             /\ retry'[1].attempt = retry[1].attempt + 1

\* C26: invoke_with_retry_langchain calls llm.invoke at most `attempts`
\* times (max_attempts, or the configured default when it is omitted or 0)
\* and ends; a call is made only while the function has not ended, its result is
\* returned at once, an error that is no rate-limit error and the rate-limit
\* error of the final attempt are re-raised, and only a rate-limit error of
\* an earlier attempt is followed by another attempt.
C26_RetryProtocol ==
    /\ [](retry # None => retry[1].invoked <= retry[1].attempts)
    /\ [][retry # None =>
            /\ Ended => retry' = retry
            /\ retry' # retry => Invokes /\ Protocol]_vars
    /\ <>Ended

\* a rate-limit error was retried and the next attempt returned the result
C26_RetriedThenReturned ==
    /\ retry # None
    /\ retry[1].invoked >= 2
    /\ retry[1].returned = Some(Some("AIMessage"))

----------------------------------------------------------------------------
(* Session singleton *)

\* the threads that SharedSessionManager() has returned to
Constructed == {t \in Threads : manager[1].users[t].self # None}

\* C27: every thread obtains the same manager, the manager a thread obtains
\* has its session table and its session lock, and no configuration key has
\* more than one Session created for it.
C27_SessionSingleton ==
    manager # None =>
        /\ \A t \in Constructed, u \in Constructed :
               manager[1].users[t].self = manager[1].users[u].self
        /\ \A t \in Constructed :
               /\ manager[1].objects[manager[1].users[t].self[1]]._sessions # None
               /\ manager[1].objects[manager[1].users[t].self[1]]._session_lock # None
               /\ manager[1].users[t].pc # "AttributeError"
        /\ \A i \in DOMAIN manager[1].created, j \in DOMAIN manager[1].created :
               manager[1].created[i] = manager[1].created[j] => i = j

\* two threads asked for the same key and hold the same Session
C27_SessionShared ==
    /\ manager # None
    /\ \E t \in Threads, u \in Threads :
           /\ t # u
           /\ manager[1].users[t].pc = "done"
           /\ manager[1].users[u].pc = "done"
           /\ manager[1].users[t].session_key = manager[1].users[u].session_key
           /\ manager[1].users[t].session = manager[1].users[u].session

----------------------------------------------------------------------------
(* Source records *)

\* C24: when analyze_rule_failures has returned, every record of the list
\* passed in has the fields and values it had before the call.
C24_RecordsNotMutated ==
    [][call # None /\ "unreconciled_records" \in DOMAIN call[1] =>
           call'[1].unreconciled_records = call[1].unreconciled_records]_vars

----------------------------------------------------------------------------
(* Report consistency *)

\* the place of a tag in the order A, B, C
TagRank(tag) == CASE tag = "A" -> 1 [] tag = "B" -> 2 [] tag = "C" -> 3

\* C28: in a successful report a tag is listed exactly if a finding of its
\* scenario is, the tags are listed in the order A, B, C without repetition,
\* and every per-type record count is at least 1.
C28_ReportConsistent ==
    Succeeded =>
        /\ Range(result[1].scenarios_detected) \subseteq {"A", "B", "C"}
        /\ \A X \in {"A", "B", "C"} :
               X \in Range(result[1].scenarios_detected) <=> FindingsOf(X) # <<>>
        /\ \A i \in DOMAIN result[1].scenarios_detected,
              j \in DOMAIN result[1].scenarios_detected :
               i < j => TagRank(result[1].scenarios_detected[i])
                            < TagRank(result[1].scenarios_detected[j])
        /\ \A ft_id \in DOMAIN result[1].file_type_records :
               result[1].file_type_records[ft_id] >= 1

\* a report with findings of two scenarios and the records of two types
C28_TwoTagsTwoCounts ==
    /\ Succeeded
    /\ result[1].scenarios_detected = <<"A", "C">>
    /\ \E i \in DOMAIN result[1].findings : result[1].findings[i].scenario = "C"
    /\ DOMAIN result[1].file_type_records = {"I1", "M1"}

----------------------------------------------------------------------------
(* Rule text *)

\* the evaluated rules whose resolved expression is not empty
NonEmptyRules == SelectSeq(ApplicableRules, LAMBDA rule: rule.resolved_expression # <<>>)

\* the rule texts: the resolved expressions of the evaluated rules, and
\* expressions with unresolved ids
RuleTextsOfPair ==
    {ApplicableRules[i].resolved_expression : i \in 1..Len(ApplicableRules)}
    \cup {<<"1">>, <<"3">>, <<"1", " ", "2">>, <<"x">>}

\* C29: _evaluate_rule gives the same result for every rule text on the
\* record pair, and a Scenario C finding names the first evaluated rule whose
\* resolved expression is not empty.
C29_RuleTextIgnored ==
    Evaluated =>
        /\ \A e1 \in RuleTextsOfPair, e2 \in RuleTextsOfPair :
               _evaluate_rule(e1, trace[1].scenario_c.internal_data,
                              trace[1].scenario_c.mis_data)
               = _evaluate_rule(e2, trace[1].scenario_c.internal_data,
                                trace[1].scenario_c.mis_data)
        /\ \A i \in 1..Len(FindingsOf("C")) :
               /\ NonEmptyRules # <<>>
               /\ FindingsOf("C")[i].failed_rule_id = NonEmptyRules[1].id

\* the first row of the rule table has an empty expression and the finding
\* names the second, whose expression keeps an unresolved id
C29_SecondRuleNamed ==
    /\ Evaluated
    /\ Len(rule_recon_state_map) = 2
    /\ rule_recon_state_map[1].rule_expression = Some(<<>>)
    /\ Len(ApplicableRules) = 1
    /\ ApplicableRules[1].resolved_expression = <<"3">>
    /\ FindingsOf("C") # <<>>
    /\ FindingsOf("C")[1].failed_rule_id = rule_recon_state_map[2].id

----------------------------------------------------------------------------
(* Transaction-date bounds *)

\* the step is an analyze call with the arguments of the call before it,
\* but for the date bounds
SameCallButBounds ==
    /\ call # None /\ "transaction_date_range" \in DOMAIN call[1]
    /\ call'[1].file_type_name = call[1].file_type_name
    /\ call'[1].unique_column_value = call[1].unique_column_value
    /\ call'[1].transaction_date_range # call[1].transaction_date_range

====
